---- MODULE Spec2Model ----
(***************************************************************************)
(* A model of the command-line utilities of cli_rust (cutr, tailr, headr,  *)
(* wcr, catr, lsr, fortuner, grepr, uniqr, commr, findr).  The utilities   *)
(* are independent programs; each has its own specification below.         *)
(* Argument strings are sequences of one-character strings, file contents  *)
(* are sequences of code points, byte strings sequences of integers 0..255.*)
(***************************************************************************)
EXTENDS Integers, Sequences, FiniteSets, TLC

VARIABLES
    pc,          \* which step of the utility under study has been taken
    range,       \* cutr: the argument of parse_pos (08_cutr/src/lib.rs:188)
    positions,   \* cutr: the MyResult<PositionList> parse_pos returned
    line,        \* cutr: a line of the input file, as its characters
    extract_pos,    \* cutr: the PositionList held by config.extract
    extracted,   \* cutr: what extract_chars / _bytes / _fields returned
    value,       \* tailr: the argument of parse_take_num (-n / -c value)
    take,        \* tailr: what parse_take_num returned
    total,       \* tailr: the number of lines (bytes) of the file
    start_index, \* tailr: what get_start_index returned
    file,        \* wcr: the reader given to count: its content, and which
                 \*      read_line call fails (0: none)
    info,        \* wcr: what count returned
    program,     \* which utility's run (or find_files) is executing
    config,      \* its Config
    next_file,   \* the position of its loop in config.files / paths
    found,       \* find_files: the paths collected so far
    stdout,      \* what was printed, in order
    stderr,      \* what was printed with eprintln!, in order
    ret,         \* what the function returned (None while it runs)
    grep_file,   \* grepr: the reader given to find_lines: its content, and
                 \*        which read_line call fails (0: none)
    pattern,     \* grepr: the Regex given to find_lines
    invert_match, \* grepr: config.invert_match
    matches,     \* grepr: what find_lines returned
    in_file,     \* uniqr: the opened config.in_file: its content, and which
                 \*        read_line call fails (0: none)
    show_count,  \* uniqr: config.count
    out_file,    \* uniqr: what was written to out_file, in order
    uniq_ret,    \* uniqr: what run returned
    file1,       \* commr: the first input: its lines as read, and whether
                 \*        reading fails for ever after them
    file2,       \* commr: the second input
    comm_config, \* commr: the show_col flags and insensitive of Config
    lines1,      \* commr: what the iterator lines1 has not yet read
    lines2,      \* commr: what the iterator lines2 has not yet read
    line1,       \* commr: the Option<String> line1
    line2,       \* commr: the Option<String> line2
    events,      \* commr: the calls of print, in order
    printed,     \* commr: the lines print wrote, in order
    iterations   \* commr: the iterations of the while loop so far

vars == <<pc, range, positions, line, extract_pos, extracted,
          value, take, total, start_index, file, info,
          program, config, next_file, found, stdout, stderr, ret,
          grep_file, pattern, invert_match, matches,
          in_file, show_count, out_file, uniq_ret,
          file1, file2, comm_config, lines1, lines2, line1, line2,
          events, printed, iterations>>

parsePosVars == <<range, positions>>
extractVars == <<line, extract_pos, extracted>>
takeVars == <<value, take, total, start_index>>
countVars == <<file, info>>
runVars == <<program, config, next_file, found, stdout, stderr, ret>>
grepVars == <<grep_file, pattern, invert_match, matches>>
uniqVars == <<in_file, show_count, out_file, uniq_ret>>
commVars == <<file1, file2, comm_config, lines1, lines2, line1, line2,
              events, printed, iterations>>

\* ------------------------------------------------------------------ bounds
\* The longest position-list string given to parse_pos.
MaxRangeLen == 5
\* The width of usize in the model (the build's is 64; the parser's overflow
\* behaviour is the same at every width).
UsizeBits == 4
\* The longest line, the largest range end and the longest position list given
\* to the extract functions.
MaxLineLen == 3
MaxIndex == 3
MaxPositions == 2
\* The longest -n / -c value given to parse_take_num, and the width of i64
\* and u64 in the model (the build's is 64).
MaxValueLen == 3
I64Bits == 5
\* The longest input given to wcr's count, in characters, and the latest
\* read_line call that may fail.
MaxFileLen == 4
MaxReadError == 2
\* The most file arguments given to a utility.
MaxFiles == 2
MaxTake == 2
\* The most lines an input of commr has.
MaxCommLines == 2
\* The most -t values and the most -n values given to findr.
MaxTypes == 2
MaxNames == 2

USIZE_MAX == 2^UsizeBits - 1
I64_MAX == 2^(I64Bits - 1) - 1
I64_MIN == -(2^(I64Bits - 1))

\* ------------------------------------------------------------ Result values
Ok(v) == [ok |-> TRUE, val |-> v]
Err(e) == [ok |-> FALSE, err |-> e]
None == [some |-> FALSE]
Some(v) == [some |-> TRUE, val |-> v]

\* ----------------------------------------------------------------- strings
AsciiDigits == {"0", "1", "2", "3", "4", "5", "6", "7", "8", "9"}

DigitValue(c) ==
    CASE c = "0" -> 0 [] c = "1" -> 1 [] c = "2" -> 2 [] c = "3" -> 3
      [] c = "4" -> 4 [] c = "5" -> 5 [] c = "6" -> 6 [] c = "7" -> 7
      [] c = "8" -> 8 [] c = "9" -> 9

DigitChar(d) ==
    CASE d = 0 -> "0" [] d = 1 -> "1" [] d = 2 -> "2" [] d = 3 -> "3"
      [] d = 4 -> "4" [] d = 5 -> "5" [] d = 6 -> "6" [] d = 7 -> "7"
      [] d = 8 -> "8" [] d = 9 -> "9"

AllDigits(s) == \A i \in 1..Len(s) : s[i] \in AsciiDigits

starts_with(s, c) == s # <<>> /\ s[1] = c

\* format!("{}", n) for a non-negative integer: decimal, no leading zeros.
RECURSIVE to_string(_)
to_string(n) ==
    IF n < 10 THEN <<DigitChar(n)>>
    ELSE Append(to_string(n \div 10), DigitChar(n % 10))

\* str::split(sep): the pieces between the separators; the empty string gives
\* one empty piece.
RECURSIVE split(_, _)
split(s, sep) ==
    IF \A i \in 1..Len(s) : s[i] # sep THEN <<s>>
    ELSE LET i == CHOOSE k \in 1..Len(s) :
                      s[k] = sep /\ \A j \in 1..(k - 1) : s[j] # sep
         IN <<SubSeq(s, 1, i - 1)>> \o split(SubSeq(s, i + 1, Len(s)), sep)

\* The value of a non-empty digit string, or -1 once it exceeds max (the
\* checked multiply/add of the integer parsers reporting PosOverflow).
RECURSIVE checked_decimal(_, _, _)
checked_decimal(s, acc, max) ==
    IF s = <<>> THEN acc
    ELSE LET next == acc * 10 + DigitValue(s[1])
         IN IF next > max THEN -1 ELSE checked_decimal(Tail(s), next, max)

\* str::parse::<usize>: an optional "+", then one or more ASCII digits, and
\* the value must fit usize.
parse_usize(s) ==
    LET digits == IF starts_with(s, "+") THEN Tail(s) ELSE s
    IN IF digits = <<>> \/ ~AllDigits(digits) THEN Err("invalid digit")
       ELSE LET v == checked_decimal(digits, 0, USIZE_MAX)
            IN IF v < 0 THEN Err("overflow") ELSE Ok(v)

\* str::parse::<NonZeroUsize>: parse::<usize>, and zero is an error.
parse_nonzero_usize(s) ==
    LET r == parse_usize(s)
    IN IF r.ok /\ r.val = 0 THEN Err("zero") ELSE r

\* -------------------------------------------------------------------- cutr
\* The message format!("illegal list value: \"{}\"", input).
IllegalListValue(input) == [msg |-> "illegal list value", value |-> input]

\* The message "First number in range ({}) must be lower than second number
\* ({})", with both numbers formatted in decimal.
RangeOrderError(first, second) ==
    [msg |-> "First number in range must be lower than second number",
     first |-> to_string(first), second |-> to_string(second)]

\* A slip in parse_index: the 1-based number is returned unconverted.
parse_index_one_based(input) ==
    IF starts_with(input, "+") THEN Err(IllegalListValue(input))
    ELSE LET r == parse_nonzero_usize(input)
         IN IF r.ok THEN Ok(r.val) ELSE Err(IllegalListValue(input))

\* parse_index: a leading "+" is refused, then NonZeroUsize, minus one.
parse_index(input) ==
    IF starts_with(input, "+") THEN Err(IllegalListValue(input))
    ELSE LET r == parse_nonzero_usize(input)
         IN IF r.ok THEN Ok(r.val - 1) ELSE Err(IllegalListValue(input))

\* A slip in the regex, ^(\d+)-(\d*)$: the second endpoint may be empty.
range_re_open_end(s) ==
    IF \E i \in 2..Len(s) :
           /\ s[i] = "-"
           /\ AllDigits(SubSeq(s, 1, i - 1))
           /\ AllDigits(SubSeq(s, i + 1, Len(s)))
    THEN LET i == CHOOSE k \in 2..Len(s) : s[k] = "-"
         IN Some(<<SubSeq(s, 1, i - 1), SubSeq(s, i + 1, Len(s))>>)
    ELSE None

\* Regex ^(\d+)-(\d+)$ on ASCII input: the two captures, or None.
range_re_captures(s) ==
    IF \E i \in 2..(Len(s) - 1) :
           /\ s[i] = "-"
           /\ AllDigits(SubSeq(s, 1, i - 1))
           /\ AllDigits(SubSeq(s, i + 1, Len(s)))
    THEN LET i == CHOOSE k \in 2..(Len(s) - 1) : s[k] = "-"
         IN Some(<<SubSeq(s, 1, i - 1), SubSeq(s, i + 1, Len(s))>>)
    ELSE None

Range(start, end) == [start |-> start, end |-> end]

\* A slip in the inner closure: the message carries the converted 0-based
\* numbers.
parse_pos_range_zero_based_message(captures) ==
    LET n1 == parse_index(captures[1])
        n2 == parse_index(captures[2])
    IN IF ~n1.ok THEN n1
       ELSE IF ~n2.ok THEN n2
       ELSE IF n1.val >= n2.val THEN Err(RangeOrderError(n1.val, n2.val))
       ELSE Ok(Range(n1.val, n2.val + 1))

\* The and_then closure of parse_pos: both captures go through parse_index
\* (`?` returns the first failure), then the order check.
parse_pos_range(captures) ==
    LET n1 == parse_index(captures[1])
        n2 == parse_index(captures[2])
    IN IF ~n1.ok THEN n1
       ELSE IF ~n2.ok THEN n2
       ELSE IF n1.val >= n2.val
            THEN Err(RangeOrderError(n1.val + 1, n2.val + 1))
       ELSE Ok(Range(n1.val, n2.val + 1))

\* The closure mapped over the elements in parse_pos: a single index, or else
\* a range when the regex matches, or else the error of the single index.
parse_pos_element(pos_list) ==
    LET single == parse_index(pos_list)
    IN IF single.ok THEN Ok(Range(single.val, single.val + 1))
       ELSE LET captures == range_re_captures(pos_list)
            IN IF ~captures.some THEN single
               ELSE parse_pos_range(captures.val)

\* A slip in collect: the last error wins instead of the first.
RECURSIVE collect_results_last_error(_)
collect_results_last_error(rs) ==
    IF rs = <<>> THEN Ok(<<>>)
    ELSE LET rest == collect_results_last_error(Tail(rs))
         IN IF ~rest.ok THEN rest
            ELSE IF ~rs[1].ok THEN rs[1]
            ELSE Ok(<<rs[1].val>> \o rest.val)

\* Iterator::collect::<Result<Vec<_>, _>>: the first Err, or every value.
RECURSIVE collect_results(_)
collect_results(rs) ==
    IF rs = <<>> THEN Ok(<<>>)
    ELSE IF ~rs[1].ok THEN rs[1]
    ELSE LET rest == collect_results(Tail(rs))
         IN IF rest.ok THEN Ok(<<rs[1].val>> \o rest.val) ELSE rest

parse_pos(r) ==
    LET elements == split(r, ",")
    IN collect_results([i \in 1..Len(elements) |-> parse_pos_element(elements[i])])

\* The characters position lists are drawn from.
RangeAlphabet == {"0", "1", "9", "-", ",", "+", "a"}

RECURSIVE StringsUpTo(_, _)
StringsUpTo(alphabet, n) ==
    IF n = 0 THEN {<<>>}
    ELSE LET shorter == StringsUpTo(alphabet, n - 1)
         IN shorter \cup {Append(s, c) : s \in shorter, c \in alphabet}

\* The variables of a utility that is not the one under study.
IdleParsePos == range = <<>> /\ positions = None
IdleExtract == line = <<>> /\ extract_pos = <<>> /\ extracted = None
IdleTake == value = <<>> /\ take = None /\ total = 0 /\ start_index = None
IdleCount == file = None /\ info = None
IdleRun ==
    /\ program = "" /\ config = None /\ next_file = 0
    /\ found = <<>> /\ stdout = <<>> /\ stderr = <<>> /\ ret = None
IdleGrep ==
    grep_file = None /\ pattern = None /\ invert_match = FALSE /\ matches = None
IdleUniq ==
    in_file = None /\ show_count = FALSE /\ out_file = <<>> /\ uniq_ret = None
IdleComm ==
    /\ file1 = None /\ file2 = None /\ comm_config = None
    /\ lines1 = <<>> /\ lines2 = <<>> /\ line1 = None /\ line2 = None
    /\ events = <<>> /\ printed = <<>> /\ iterations = 0
IdleText == IdleGrep /\ IdleUniq /\ IdleComm

InitParsePos ==
    /\ pc = "start"
    /\ range \in StringsUpTo(RangeAlphabet, MaxRangeLen)
    /\ positions = None
    /\ IdleExtract /\ IdleTake /\ IdleCount /\ IdleRun /\ IdleText

ParsePos ==
    /\ pc = "start"
    /\ positions' = Some(parse_pos(range))
    /\ pc' = "parsed"
    /\ UNCHANGED <<range, extractVars, takeVars, countVars, runVars,
                   grepVars, uniqVars, commVars>>

NextParsePos == ParsePos

SpecParsePos == InitParsePos /\ [][NextParsePos]_vars

\* ---------------------------------------------- cutr: what the claims speak of
\* The mathematical value of a digit string, of any size.
RECURSIVE DecimalValue(_)
DecimalValue(s) ==
    IF s = <<>> THEN 0
    ELSE DecimalValue(SubSeq(s, 1, Len(s) - 1)) * 10 + DigitValue(s[Len(s)])

\* A digit string as written, without its leading zeros.
RECURSIVE WithoutLeadingZeros(_)
WithoutLeadingZeros(s) ==
    IF Len(s) > 1 /\ s[1] = "0" THEN WithoutLeadingZeros(Tail(s)) ELSE s

IsNumber(e) == e # <<>> /\ AllDigits(e)

\* The elements of a comma-separated list: the text between consecutive commas.
CommaCount(s) == Cardinality({i \in 1..Len(s) : s[i] = ","})
CommaAt(s, k) ==
    IF k = 0 THEN 0
    ELSE IF k > CommaCount(s) THEN Len(s) + 1
    ELSE CHOOSE i \in 1..Len(s) :
             s[i] = "," /\ Cardinality({j \in 1..i : s[j] = ","}) = k
ElementCount(s) == CommaCount(s) + 1
Element(s, k) == SubSeq(s, CommaAt(s, k - 1) + 1, CommaAt(s, k) - 1)

\* digits-digits: one dash with a number on each side.
HasRangeForm(e) ==
    \E i \in 1..Len(e) :
        e[i] = "-" /\ IsNumber(SubSeq(e, 1, i - 1)) /\ IsNumber(SubSeq(e, i + 1, Len(e)))
DashAt(e) == CHOOSE i \in 1..Len(e) : e[i] = "-"
RangeFirst(e) == SubSeq(e, 1, DashAt(e) - 1)
RangeSecond(e) == SubSeq(e, DashAt(e) + 1, Len(e))

\* An element with one endpoint omitted: "3-" or "-3".
IsOpenRange(e) ==
    /\ Len(e) >= 2
    /\ \/ e[Len(e)] = "-" /\ IsNumber(SubSeq(e, 1, Len(e) - 1))
       \/ e[1] = "-" /\ IsNumber(Tail(e))

\* A positive integer of any size / one that usize holds.
IsPositive(e) == IsNumber(e) /\ DecimalValue(e) > 0
FitsUsize(e) == IsNumber(e) /\ DecimalValue(e) <= USIZE_MAX
IsIndex(e) == IsPositive(e) /\ FitsUsize(e)

\* The elements C1 is about, with integers of any size.
IsListElementAnySize(e) ==
    \/ IsPositive(e)
    \/ /\ HasRangeForm(e)
       /\ IsPositive(RangeFirst(e))
       /\ DecimalValue(RangeFirst(e)) < DecimalValue(RangeSecond(e))

\* The same with every integer at most usize::MAX.
IsListElement(e) ==
    \/ IsIndex(e)
    \/ /\ HasRangeForm(e)
       /\ IsIndex(RangeFirst(e)) /\ IsIndex(RangeSecond(e))
       /\ DecimalValue(RangeFirst(e)) < DecimalValue(RangeSecond(e))

\* n becomes n-1..n, a-b becomes a-1..b.
ExpectedRange(e) ==
    IF IsNumber(e) THEN Range(DecimalValue(e) - 1, DecimalValue(e))
    ELSE Range(DecimalValue(RangeFirst(e)) - 1, DecimalValue(RangeSecond(e)))

OneRangePerElementInOrder ==
    /\ positions.val.ok
    /\ Len(positions.val.val) = ElementCount(range)
    /\ \A k \in 1..ElementCount(range) :
           positions.val.val[k] = ExpectedRange(Element(range, k))

\* The leftmost element that is no list element (0 when there is none).
FirstInvalid(s) ==
    IF \A k \in 1..ElementCount(s) : IsListElement(Element(s, k)) THEN 0
    ELSE CHOOSE k \in 1..ElementCount(s) :
             /\ ~IsListElement(Element(s, k))
             /\ \A j \in 1..(k - 1) : IsListElement(Element(s, j))

\* C1 as written: every list of positive integers and closed ranges a-b with
\* a < b, whatever the size of the integers, parses to one range per element in
\* the order written.
C1_AnySizeListParses ==
    (pc = "parsed" /\ \A k \in 1..ElementCount(range) :
                          IsListElementAnySize(Element(range, k)))
        => OneRangePerElementInOrder

\* C1 (amended): every comma-separated list whose elements are positive decimal
\* integers n <= usize::MAX (leading zeros allowed) or closed ranges a-b of such
\* integers with a < b parses to Ok with exactly one range per element, in the
\* order written, n as n-1..n and a-b as a-1..b.
C1_ListParsesInOrder ==
    (pc = "parsed" /\ FirstInvalid(range) = 0) => OneRangePerElementInOrder

\* "9,1-2" and the like: an index followed by a range that starts before it,
\* parsed to two ranges in the order written.
C1_Witness ==
    /\ pc = "parsed"
    /\ FirstInvalid(range) = 0
    /\ ElementCount(range) = 2
    /\ IsNumber(Element(range, 1))
    /\ HasRangeForm(Element(range, 2))
    /\ positions.val.ok
    /\ positions.val.val[2].start < positions.val.val[1].start

\* The leftmost invalid element is an open range.
FirstInvalidIsOpenRange ==
    /\ pc = "parsed"
    /\ FirstInvalid(range) # 0
    /\ IsOpenRange(Element(range, FirstInvalid(range)))

\* C2 as written: an element with one endpoint omitted is accepted like a
\* closed range.
C2_OpenRangeAccepted ==
    (pc = "parsed" /\ \A k \in 1..ElementCount(range) :
                          \/ IsListElement(Element(range, k))
                          \/ IsOpenRange(Element(range, k)))
        => positions.val.ok

\* C2 (amended): parse_pos handles closed ranges only; an element with one
\* endpoint omitted ("3-", "-3") is refused, and when it is the leftmost
\* invalid element the error is illegal list value with the whole element.
C2_OpenRangeRefused ==
    FirstInvalidIsOpenRange
        => /\ ~positions.val.ok
           /\ positions.val.err
                  = [msg |-> "illegal list value",
                     value |-> Element(range, FirstInvalid(range))]

\* "1,2-": a valid element, then a range whose end is omitted.
C2_Witness ==
    /\ FirstInvalidIsOpenRange
    /\ FirstInvalid(range) = 2
    /\ Element(range, 2)[Len(Element(range, 2))] = "-"
    /\ ~positions.val.ok

\* The leftmost endpoint of a digits-digits element that parse_index refuses:
\* zero, or more than usize::MAX.
BadEndpoint(e) ==
    IF ~IsIndex(RangeFirst(e)) THEN RangeFirst(e) ELSE RangeSecond(e)
HasBadEndpoint(e) ==
    HasRangeForm(e) /\ (~IsIndex(RangeFirst(e)) \/ ~IsIndex(RangeSecond(e)))
\* The leftmost endpoint whose value is zero.
ZeroEndpoint(e) ==
    IF DecimalValue(RangeFirst(e)) = 0 THEN RangeFirst(e) ELSE RangeSecond(e)
HasZeroEndpoint(e) ==
    HasRangeForm(e)
        /\ (DecimalValue(RangeFirst(e)) = 0 \/ DecimalValue(RangeSecond(e)) = 0)

\* C3 as written: an invalid element gives Err for the leftmost invalid
\* element; the whole element when it is not digits-digits, the zero endpoint
\* when it is digits-digits with an endpoint equal to zero.
C3_ZeroEndpointNamed ==
    (pc = "parsed" /\ FirstInvalid(range) # 0)
        => LET e == Element(range, FirstInvalid(range))
           IN /\ ~positions.val.ok
              /\ ~HasRangeForm(e)
                     => positions.val.err
                            = [msg |-> "illegal list value", value |-> e]
              /\ HasZeroEndpoint(e)
                     => positions.val.err
                            = [msg |-> "illegal list value",
                               value |-> ZeroEndpoint(e)]

\* C3 (amended): an invalid element gives Err and no partial list, and the
\* error concerns the leftmost invalid element e: illegal list value with the
\* whole of e when e is not digits-digits, and with the leftmost endpoint that
\* is zero or exceeds usize::MAX, as written, when e is digits-digits with such
\* an endpoint.
C3_LeftmostInvalidReported ==
    (pc = "parsed" /\ FirstInvalid(range) # 0)
        => LET e == Element(range, FirstInvalid(range))
           IN /\ ~positions.val.ok
              /\ DOMAIN positions.val = {"ok", "err"}
              /\ ~HasRangeForm(e)
                     => positions.val.err
                            = [msg |-> "illegal list value", value |-> e]
              /\ HasBadEndpoint(e)
                     => positions.val.err
                            = [msg |-> "illegal list value",
                               value |-> BadEndpoint(e)]

\* "1,0-1" and the like: a valid element, then digits-digits with a zero
\* endpoint, and a further element behind it.
C3_Witness ==
    /\ pc = "parsed"
    /\ FirstInvalid(range) = 2
    /\ HasZeroEndpoint(Element(range, 2))
    /\ ~positions.val.ok
    /\ positions.val.err.value = ZeroEndpoint(Element(range, 2))

\* The leftmost invalid element is a-b with positive endpoints and a >= b.
FirstInvalidIsDescending(fits) ==
    /\ pc = "parsed"
    /\ FirstInvalid(range) # 0
    /\ LET e == Element(range, FirstInvalid(range))
       IN /\ HasRangeForm(e)
          /\ IsPositive(RangeFirst(e)) /\ IsPositive(RangeSecond(e))
          /\ fits => (FitsUsize(RangeFirst(e)) /\ FitsUsize(RangeSecond(e)))
          /\ DecimalValue(RangeFirst(e)) >= DecimalValue(RangeSecond(e))

RangeOrderReported ==
    LET e == Element(range, FirstInvalid(range))
    IN /\ ~positions.val.ok
       /\ positions.val.err
              = [msg |-> "First number in range must be lower than second number",
                 first |-> WithoutLeadingZeros(RangeFirst(e)),
                 second |-> WithoutLeadingZeros(RangeSecond(e))]

\* C4 as written: a-b with positive endpoints of any size and a >= b gives the
\* range-order message with a and b.
C4_AnySizeDescendingRange == FirstInvalidIsDescending(FALSE) => RangeOrderReported

\* C4 (amended): an element a-b whose endpoints are positive decimal integers
\* <= usize::MAX with a >= b (and which is the leftmost invalid element) gives
\* Err "First number in range (a) must be lower than second number (b)", a and
\* b being the 1-based numbers written, in decimal without leading zeros.
C4_DescendingRangeReported == FirstInvalidIsDescending(TRUE) => RangeOrderReported

\* "02-01" and the like: a > b, written with a leading zero.
C4_Witness ==
    /\ FirstInvalidIsDescending(TRUE)
    /\ LET e == Element(range, FirstInvalid(range))
       IN /\ DecimalValue(RangeFirst(e)) > DecimalValue(RangeSecond(e))
          /\ RangeFirst(e)[1] = "0"
    /\ ~positions.val.ok

\* ------------------------------------------------- cutr: the extract functions
\* Characters are Unicode scalar values; the default delimiter is a tab.
Tab == 9
REPLACEMENT_CHARACTER == 65533

\* char::encode_utf8, for the characters below U+10000.
encode_utf8(c) ==
    IF c < 128 THEN <<c>>
    ELSE IF c < 2048 THEN <<192 + (c \div 64), 128 + (c % 64)>>
    ELSE <<224 + (c \div 4096), 128 + ((c \div 64) % 64), 128 + (c % 64)>>

\* str::as_bytes: the UTF-8 encoding of the characters.
RECURSIVE as_bytes(_)
as_bytes(str) ==
    IF str = <<>> THEN <<>> ELSE encode_utf8(str[1]) \o as_bytes(Tail(str))

IsContinuation(b) == b >= 128 /\ b <= 191

\* String::from_utf8_lossy on bytes taken from such encodings: a complete
\* sequence decodes to its character, and every maximal prefix of an
\* incomplete sequence (and every stray byte) decodes to one U+FFFD.
RECURSIVE from_utf8_lossy(_)
from_utf8_lossy(bytes) ==
    IF bytes = <<>> THEN <<>>
    ELSE LET b == bytes[1]
             n == Len(bytes)
             rest(k) == from_utf8_lossy(SubSeq(bytes, k + 1, n))
         IN IF b < 128 THEN <<b>> \o rest(1)
            ELSE IF b >= 194 /\ b <= 223
                 THEN IF n >= 2 /\ IsContinuation(bytes[2])
                      THEN <<((b - 192) * 64) + (bytes[2] - 128)>> \o rest(2)
                      ELSE <<REPLACEMENT_CHARACTER>> \o rest(1)
            ELSE IF b >= 225 /\ b <= 239 /\ b # 237
                 THEN IF n >= 2 /\ IsContinuation(bytes[2])
                      THEN IF n >= 3 /\ IsContinuation(bytes[3])
                           THEN <<((b - 224) * 4096) + ((bytes[2] - 128) * 64)
                                      + (bytes[3] - 128)>> \o rest(3)
                           ELSE <<REPLACEMENT_CHARACTER>> \o rest(2)
                      ELSE <<REPLACEMENT_CHARACTER>> \o rest(1)
            ELSE <<REPLACEMENT_CHARACTER>> \o rest(1)

\* range.filter_map(|i| elems.get(i)), from index i of the range on.
RECURSIVE filter_map_get(_, _, _)
filter_map_get(elems, i, end) ==
    IF i >= end THEN <<>>
    ELSE (IF i < Len(elems) THEN <<elems[i + 1]>> ELSE <<>>)
             \o filter_map_get(elems, i + 1, end)

\* A slip: the selected elements in the order of the line, each once (what
\* cut(1) prints).
flat_map_in_line_order(elems, pos) ==
    LET covered(i) == \E k \in 1..Len(pos) : pos[k].start <= i /\ i < pos[k].end
    IN [n \in 1..Cardinality({i \in 0..(Len(elems) - 1) : covered(i)}) |->
           elems[(CHOOSE i \in 0..(Len(elems) - 1) :
                      /\ covered(i)
                      /\ Cardinality({j \in 0..i : covered(j)}) = n) + 1]]

\* pos.iter().cloned().flat_map(|range| range.filter_map(|i| elems.get(i))).
RECURSIVE flat_map_ranges(_, _)
flat_map_ranges(elems, pos) ==
    IF pos = <<>> THEN <<>>
    ELSE filter_map_get(elems, pos[1].start, pos[1].end)
             \o flat_map_ranges(elems, Tail(pos))

extract_chars(l, char_pos) == flat_map_ranges(l, char_pos)

extract_fields(record, field_pos) == flat_map_ranges(record, field_pos)

extract_bytes(l, byte_pos) == from_utf8_lossy(flat_map_ranges(as_bytes(l), byte_pos))

\* The records the csv reader of run yields for a line without quotes: none
\* for an empty line, else the fields between the delimiters.
csv_records(l, delimiter) == IF l = <<>> THEN <<>> ELSE <<split(l, delimiter)>>

\* The characters lines are made of: b, a-acute (two bytes) and the tab.
LineAlphabet == {98, 225, Tab}

\* The ranges parse_pos can produce: start < end.
Ranges ==
    {Range(p[1], p[2]) : p \in {q \in (0..MaxIndex) \X (0..MaxIndex) : q[1] < q[2]}}

InitExtract ==
    /\ pc = "start"
    /\ line \in StringsUpTo(LineAlphabet, MaxLineLen)
    /\ extract_pos \in StringsUpTo(Ranges, MaxPositions)
    /\ extracted = None
    /\ IdleParsePos /\ IdleTake /\ IdleCount /\ IdleRun /\ IdleText

\* run, Extract::Chars: extract_chars on the line.
ExtractChars ==
    /\ pc = "start"
    /\ extracted' = Some(extract_chars(line, extract_pos))
    /\ pc' = "chars"
    /\ UNCHANGED <<line, extract_pos, parsePosVars, takeVars, countVars, runVars,
                   grepVars, uniqVars, commVars>>

\* run, Extract::Bytes: extract_bytes on the line.
ExtractBytes ==
    /\ pc = "start"
    /\ extracted' = Some(extract_bytes(line, extract_pos))
    /\ pc' = "bytes"
    /\ UNCHANGED <<line, extract_pos, parsePosVars, takeVars, countVars, runVars,
                   grepVars, uniqVars, commVars>>

\* run, Extract::Fields: extract_fields on each record read from the line.
ExtractFields ==
    /\ pc = "start"
    /\ \E record \in {csv_records(line, Tab)[i] : i \in 1..Len(csv_records(line, Tab))} :
           extracted' = Some(extract_fields(record, extract_pos))
    /\ pc' = "fields"
    /\ UNCHANGED <<line, extract_pos, parsePosVars, takeVars, countVars, runVars,
                   grepVars, uniqVars, commVars>>

NextExtract == ExtractChars \/ ExtractBytes \/ ExtractFields

SpecExtract == InitExtract /\ [][NextExtract]_vars

\* ------------------------------------------ cutr: what claim C5 speaks of
\* How many indices of range k exist in elems, and how many elements the
\* ranges before k contribute.
ExistingIn(elems, r) == Cardinality({i \in r.start..(r.end - 1) : i < Len(elems)})
RECURSIVE OffsetOf(_, _, _)
OffsetOf(elems, pos, k) ==
    IF k = 1 THEN 0 ELSE OffsetOf(elems, pos, k - 1) + ExistingIn(elems, pos[k - 1])

\* The elements at the existing indices: ranges in list order, indices
\* ascending inside a range, an index once per range that covers it.
ExpectedSelection(elems, pos) ==
    [n \in 1..OffsetOf(elems, pos, Len(pos) + 1) |->
        LET k == CHOOSE j \in 1..Len(pos) :
                     OffsetOf(elems, pos, j) < n /\ n <= OffsetOf(elems, pos, j + 1)
        IN elems[pos[k].start + (n - OffsetOf(elems, pos, k))]]

CharsAndFieldsAreTheSelection ==
    /\ pc = "chars" => extracted.val = ExpectedSelection(line, extract_pos)
    /\ pc = "fields" =>
           extracted.val = ExpectedSelection(csv_records(line, Tab)[1], extract_pos)

\* C5 as written: the result of each of the three functions is the sequence
\* of selected elements; for extract_bytes, the bytes of the returned string
\* are the selected bytes.
C5_ResultIsTheSelection ==
    /\ CharsAndFieldsAreTheSelection
    /\ pc = "bytes" =>
           as_bytes(extracted.val) = ExpectedSelection(as_bytes(line), extract_pos)

\* C5 (amended): extract_chars and extract_fields return the elements at the
\* existing indices, ranges in list order and indices ascending inside each
\* range, indices at or beyond the length skipped, an index emitted once per
\* covering range; extract_bytes returns the lossy UTF-8 decoding of the bytes
\* selected that way (a byte sequence that is not UTF-8 comes out as U+FFFD).
C5_SelectionInListOrder ==
    /\ CharsAndFieldsAreTheSelection
    /\ pc = "bytes" =>
           extracted.val
               = from_utf8_lossy(ExpectedSelection(as_bytes(line), extract_pos))

\* Characters taken by two ranges, the second starting before the first and
\* overlapping it, one of them reaching beyond the line.
C5_Witness ==
    /\ pc = "chars"
    /\ Len(extract_pos) = 2
    /\ extract_pos[2].start < extract_pos[1].start
    /\ extract_pos[2].end > extract_pos[1].start
    /\ extract_pos[1].end > Len(line)
    /\ Len(extracted.val) = 3

\* ------------------------------------------------------------------- tailr
PlusZero == [tag |-> "PlusZero"]
TakeNum(n) == [tag |-> "TakeNum", num |-> n]

\* What a call does: it returns a value, or it panics.
Returned(v) == [panicked |-> FALSE, val |-> v]
Panicked == [panicked |-> TRUE]

\* Two's complement wrap-around into i64, and `x as u64`.
wrap_i64(n) == ((n - I64_MIN) % (2^I64Bits)) + I64_MIN
as_u64(n) == n % (2^I64Bits)

\* An i64 operation whose exact result is n: with overflow checks (a debug
\* build) a result out of range panics, without them (a release build) it
\* wraps.
i64_result(n, overflow_checks) ==
    IF n >= I64_MIN /\ n <= I64_MAX THEN Returned(n)
    ELSE IF overflow_checks THEN Panicked
    ELSE Returned(wrap_i64(n))

\* str::parse::<i64>: an optional "+" or "-", then one or more ASCII digits,
\* and the value must fit i64.
parse_i64(s) ==
    LET negative == starts_with(s, "-")
        digits == IF starts_with(s, "+") \/ negative THEN Tail(s) ELSE s
    IN IF digits = <<>> \/ ~AllDigits(digits) THEN Err("invalid digit")
       ELSE LET v == checked_decimal(digits, 0,
                                     IF negative THEN -I64_MIN ELSE I64_MAX)
            IN IF v < 0 THEN Err("overflow")
               ELSE Ok(IF negative THEN -v ELSE v)

\* A slip in parse_take_num: the sign is taken from the number, so that an
\* unsigned value keeps its sign.
parse_take_num_sign_kept(v, overflow_checks) ==
    LET parsed == parse_i64(v)
    IN IF parsed.ok /\ v = <<"+", "0">> THEN Returned(Ok(PlusZero))
       ELSE IF parsed.ok THEN Returned(Ok(TakeNum(parsed.val)))
       ELSE Returned(Err(v))

parse_take_num(v, overflow_checks) ==
    LET parsed == parse_i64(v)
    IN IF parsed.ok /\ v = <<"+", "0">> THEN Returned(Ok(PlusZero))
       ELSE IF parsed.ok
            THEN LET sign == IF starts_with(v, "+") \/ starts_with(v, "-")
                             THEN 1 ELSE -1
                     product == i64_result(sign * parsed.val, overflow_checks)
                 IN IF product.panicked THEN Panicked
                    ELSE Returned(Ok(TakeNum(product.val)))
       ELSE Returned(Err(v))

get_start_index(take_val, t, overflow_checks) ==
    IF t = 0 THEN Returned(None)
    ELSE IF take_val = PlusZero THEN Returned(Some(as_u64(t) - 1))
    ELSE LET num == take_val.num
         IN IF num = 0 \/ num > t THEN Returned(None)
            ELSE IF num < 0
                 THEN LET abs == i64_result(-num, overflow_checks)
                      IN IF abs.panicked THEN Panicked
                         ELSE IF abs.val > t THEN Returned(Some(0))
                         ELSE LET sum == i64_result(t + num, overflow_checks)
                              IN IF sum.panicked THEN Panicked
                                 ELSE Returned(Some(as_u64(sum.val)))
            ELSE Returned(Some(as_u64(num) - 1))

\* The characters -n / -c values are drawn from.
ValueAlphabet == {"+", "-", "0", "1", "2", "5", "6", "."}

InitTake ==
    /\ pc = "start"
    /\ value \in StringsUpTo(ValueAlphabet, MaxValueLen)
    /\ total \in 0..I64_MAX
    /\ take = None
    /\ start_index = None
    /\ IdleParsePos /\ IdleExtract /\ IdleCount /\ IdleRun /\ IdleText

\* get_args: the -n / -c value goes through parse_take_num.
ParseTakeNum ==
    /\ pc = "start"
    /\ \E overflow_checks \in BOOLEAN :
           take' = Some(parse_take_num(value, overflow_checks))
    /\ pc' = "parsed"
    /\ UNCHANGED <<value, total, start_index, parsePosVars, extractVars, countVars, runVars,
                   grepVars, uniqVars, commVars>>

\* get_start_index on the parsed value and the file's total.
GetStartIndex ==
    /\ pc = "parsed"
    /\ ~take.val.panicked /\ take.val.val.ok
    /\ \E overflow_checks \in BOOLEAN :
           start_index' = Some(get_start_index(take.val.val.val, total, overflow_checks))
    /\ pc' = "indexed"
    /\ UNCHANGED <<value, total, take, parsePosVars, extractVars, countVars, runVars,
                   grepVars, uniqVars, commVars>>

NextTake == ParseTakeNum \/ GetStartIndex

SpecTake == InitTake /\ [][NextTake]_vars

\* ------------------------------------- tailr: what claims C8 and C9 speak of
AbsoluteValue(n) == IF n < 0 THEN -n ELSE n

\* The cases of C8, for total >= 0.
ExpectedStartIndex(take_val, t) ==
    IF t = 0 THEN None
    ELSE IF take_val = PlusZero THEN Some(t - 1)
    ELSE LET n == take_val.num
         IN IF n = 0 \/ n > t THEN None
            ELSE IF n > 0 THEN Some(n - 1)
            ELSE IF AbsoluteValue(n) <= t THEN Some(t + n)
            ELSE Some(0)

\* C8: get_start_index(take, total), total >= 0, returns None when total = 0,
\* take is TakeNum(0) or TakeNum(n) with n > total; Some(total - 1) for
\* PlusZero; Some(n - 1) for 0 < n <= total; Some(total + n) for n < 0 with
\* |n| <= total; and Some(0) for n < 0 with |n| > total.
C8_StartIndexCases ==
    pc = "indexed"
        => start_index.val = Returned(ExpectedStartIndex(take.val.val.val, total))

\* The strings that parse as an i64: an optional sign, digits, a value in range.
HasSign(v) == starts_with(v, "+") \/ starts_with(v, "-")
Unsigned(v) == IF HasSign(v) THEN Tail(v) ELSE v
SignedValue(v) ==
    IF starts_with(v, "-") THEN -DecimalValue(Tail(v)) ELSE DecimalValue(Unsigned(v))
ParsesAsI64(v) ==
    /\ IsNumber(Unsigned(v))
    /\ SignedValue(v) >= I64_MIN /\ SignedValue(v) <= I64_MAX

ExpectedTakeValue(v) ==
    IF ~ParsesAsI64(v) THEN Err(v)
    ELSE IF v = <<"+", "0">> THEN Ok(PlusZero)
    ELSE IF HasSign(v) THEN Ok(TakeNum(SignedValue(v)))
    ELSE Ok(TakeNum(-DecimalValue(v)))

\* C9: for a string that parses as an i64, parse_take_num gives PlusZero for
\* exactly "+0", TakeNum(n) with the parsed value unchanged for any other
\* signed string, and TakeNum(-n) for an unsigned one; any other string gives
\* Err with the input as message.  i64::MAX unsigned gives TakeNum(i64::MIN+1)
\* and the string of i64::MIN gives TakeNum(i64::MIN).
C9_ParseTakeNum ==
    /\ pc \in {"parsed", "indexed"} => take.val = Returned(ExpectedTakeValue(value))
    /\ \A overflow_checks \in BOOLEAN :
           /\ parse_take_num(to_string(I64_MAX), overflow_checks)
                  = Returned(Ok(TakeNum(I64_MIN + 1)))
           /\ parse_take_num(<<"-">> \o to_string(-I64_MIN), overflow_checks)
                  = Returned(Ok(TakeNum(I64_MIN)))

\* An unsigned i64::MAX has been parsed to TakeNum(i64::MIN + 1).
C9_Witness ==
    /\ pc = "parsed"
    /\ IsNumber(value)
    /\ DecimalValue(value) = I64_MAX
    /\ take.val = Returned(Ok(TakeNum(I64_MIN + 1)))

\* --------------------------------------------------------------------- wcr
Newline == 10

\* char::is_whitespace.
is_whitespace(c) ==
    \/ c >= 9 /\ c <= 13
    \/ c \in {32, 133, 160, 5760, 8232, 8233, 8239, 8287, 12288}
    \/ c >= 8192 /\ c <= 8202

\* What successive read_line calls put in the buffer: the text up to and
\* including each newline, and a last piece without one when there is text
\* after the last newline.
RECURSIVE read_lines(_)
read_lines(content) ==
    IF content = <<>> THEN <<>>
    ELSE IF \A i \in 1..Len(content) : content[i] # Newline THEN <<content>>
    ELSE LET i == CHOOSE k \in 1..Len(content) :
                      content[k] = Newline /\ \A j \in 1..(k - 1) : content[j] # Newline
         IN <<SubSeq(content, 1, i)>> \o read_lines(SubSeq(content, i + 1, Len(content)))

\* buf.split_whitespace().count().
RECURSIVE split_whitespace_count(_, _)
split_whitespace_count(buf, in_word) ==
    IF buf = <<>> THEN 0
    ELSE IF is_whitespace(buf[1]) THEN split_whitespace_count(Tail(buf), FALSE)
    ELSE (IF in_word THEN 0 ELSE 1) + split_whitespace_count(Tail(buf), TRUE)

FileInfo(lines, words, bytes, chars) ==
    [num_lines |-> lines, num_words |-> words, num_bytes |-> bytes, num_chars |-> chars]

\* A slip in the loop of count: num_chars is advanced by the bytes read.
RECURSIVE count_loop_chars_as_bytes(_, _, _, _)
count_loop_chars_as_bytes(segments, call, read_error_at, so_far) ==
    IF call = read_error_at \/ call > Len(segments) THEN so_far
    ELSE LET buf == segments[call]
         IN count_loop_chars_as_bytes(segments, call + 1, read_error_at,
                FileInfo(so_far.num_lines + 1,
                         so_far.num_words + split_whitespace_count(buf, FALSE),
                         so_far.num_bytes + Len(as_bytes(buf)),
                         so_far.num_chars + Len(as_bytes(buf))))

\* The loop of count from the call-th read_line on: it ends when read_line
\* returns Ok(0) and also when it returns Err (`while let Ok`).
RECURSIVE count_loop(_, _, _, _)
count_loop(segments, call, read_error_at, so_far) ==
    IF call = read_error_at \/ call > Len(segments) THEN so_far
    ELSE LET buf == segments[call]
         IN count_loop(segments, call + 1, read_error_at,
                       FileInfo(so_far.num_lines + 1,
                                so_far.num_words + split_whitespace_count(buf, FALSE),
                                so_far.num_bytes + Len(as_bytes(buf)),
                                so_far.num_chars + Len(buf)))

count(f) ==
    Ok(count_loop(read_lines(f.content), 1, f.read_error_at, FileInfo(0, 0, 0, 0)))

\* The characters of the inputs: a, e-acute (two bytes), space, no-break
\* space (two bytes, white space) and newline.
CountAlphabet == {97, 233, 32, 160, Newline}

InitCount ==
    /\ pc = "start"
    /\ file \in [content : StringsUpTo(CountAlphabet, MaxFileLen),
                 read_error_at : 0..MaxReadError]
    /\ info = None
    /\ IdleParsePos /\ IdleExtract /\ IdleTake /\ IdleRun /\ IdleText

\* run: count on an opened file.
Count ==
    /\ pc = "start"
    /\ info' = Some(count(file))
    /\ pc' = "counted"
    /\ UNCHANGED <<file, parsePosVars, extractVars, takeVars, runVars,
                   grepVars, uniqVars, commVars>>

NextCount == Count

SpecCount == InitCount /\ [][NextCount]_vars

\* ----------------------------------------------- wcr: what claim C10 speaks of
CountOf(content, P(_)) == Cardinality({i \in 1..Len(content) : P(content[i])})
IsNewline(c) == c = Newline
AnyChar(c) == TRUE

\* Line records: the newline-terminated segments, plus a final non-empty
\* segment without a newline.
LineRecords(content) ==
    CountOf(content, IsNewline)
        + (IF content # <<>> /\ content[Len(content)] # Newline THEN 1 ELSE 0)

\* Maximal runs of non-whitespace characters: one per position where a run
\* starts.
WordRuns(content) ==
    Cardinality({i \in 1..Len(content) :
                     /\ ~is_whitespace(content[i])
                     /\ (i = 1 \/ is_whitespace(content[i - 1]))})

Utf8Len(c) == IF c < 128 THEN 1 ELSE IF c < 2048 THEN 2 ELSE 3
RECURSIVE ByteCount(_)
ByteCount(content) ==
    IF content = <<>> THEN 0 ELSE Utf8Len(content[1]) + ByteCount(Tail(content))

\* C10: for a readable input, count returns Ok with num_lines the number of
\* line records, num_bytes and num_chars the numbers of bytes and characters
\* with the line terminators, and num_words the number of maximal runs of
\* non-whitespace characters.
C10_CountTotals ==
    (pc = "counted" /\ file.read_error_at = 0)
        => info.val = Ok([num_lines |-> LineRecords(file.content),
                          num_words |-> WordRuns(file.content),
                          num_bytes |-> ByteCount(file.content),
                          num_chars |-> Len(file.content)])

\* Two lines, the last without a newline, two words, a two-byte character.
C10_Witness ==
    /\ pc = "counted"
    /\ file.read_error_at = 0
    /\ info.val.ok
    /\ info.val.val.num_lines = 2
    /\ info.val.val.num_words = 2
    /\ info.val.val.num_bytes > info.val.val.num_chars
    /\ file.content[Len(file.content)] # Newline

\* ------------------------------------------- the file system the runs meet
\* a.txt and bad.txt are regular files (bad.txt stops being UTF-8 after its
\* first line), nope does not exist, dir is a directory with three entries,
\* locked is a directory without read permission, links is a directory that
\* holds a symbolic link to a.txt, blank.txt is a regular file with blank
\* lines at its start, middle and end and a line that ends in "\r\n".
Arguments == {"a.txt", "bad.txt", "nope", "dir", "locked"}
Exists(p) == p # "nope"
IsDirectory(p) == p \in {"dir", "locked", "links"}
IsSymlink(p) == p = "links/s"
IsRegularFile(p) == Exists(p) /\ ~IsDirectory(p) /\ ~IsSymlink(p)
Children(p) ==
    CASE p = "dir" -> {"dir/.h", "dir/c.txt", "dir/d.dat"}
      [] p = "links" -> {"links/s"}
      [] OTHER -> {}
Readable(p) == p # "locked"
IsHidden(p) == p = "dir/.h"
HasDatExtension(p) == p = "dir/d.dat"
Content(p) ==
    CASE p = "a.txt" -> <<98, Newline, Newline, 98, Newline>>
      [] p = "bad.txt" -> <<98, Newline>>
      [] p = "dir/c.txt" -> <<98>>
      [] p = "blank.txt" -> <<Newline, Newline, 98, 13, Newline, 32, Newline, Newline>>
      [] OTHER -> <<>>
\* Which read of the opened file fails (0: none): reading a directory fails
\* at once, bad.txt at its second line.
ReadErrorAt(p) ==
    CASE IsDirectory(p) -> 1 [] p = "bad.txt" -> 2 [] OTHER -> 0
\* All paths in the order of PathBuf's Ord (component by component).
SortedPaths ==
    <<"a.txt", "bad.txt", "blank.txt", "dir", "dir/.h", "dir/c.txt", "dir/d.dat",
      "links", "links/s", "locked", "nope">>

\* File::open.
File_open(p) ==
    IF ~Exists(p) THEN Err("No such file or directory")
    ELSE IF ~Readable(p) THEN Err("Permission denied")
    ELSE Ok(p)

\* std::fs::metadata.
metadata(p) ==
    IF ~Exists(p) THEN Err("No such file or directory")
    ELSE Ok([is_file |-> IsRegularFile(p), is_dir |-> IsDirectory(p)])

\* The orders in which the entries of the directories may be listed.
Orderings(S) ==
    {q \in [1..Cardinality(S) -> S] : \A i, j \in DOMAIN q : q[i] = q[j] => i = j}
ReadDirOrders ==
    LET listable == {"dir", "links"}
    IN {o \in [listable -> UNION {Orderings(Children(d)) : d \in listable}] :
           \A d \in listable : o[d] \in Orderings(Children(d))}

\* std::fs::read_dir.
read_dir(p, order) ==
    IF ~IsDirectory(p) THEN Err("Not a directory")
    ELSE IF ~Readable(p) THEN Err("Permission denied")
    ELSE Ok(order[p])

\* WalkDir::new(p).into_iter(): the entry itself, then what lies below it; an
\* error where something cannot be read.
RECURSIVE walk_dir(_, _)
RECURSIVE walk_entries(_, _)
walk_dir(p, order) ==
    IF ~Exists(p) THEN <<Err("No such file or directory")>>
    ELSE IF ~IsDirectory(p) THEN <<Ok(p)>>
    ELSE IF ~Readable(p) THEN <<Ok(p), Err("Permission denied")>>
    ELSE <<Ok(p)>> \o walk_entries(order[p], order)
walk_entries(entries, order) ==
    IF entries = <<>> THEN <<>>
    ELSE walk_dir(entries[1], order) \o walk_entries(Tail(entries), order)

\* BufRead::lines: the pieces read_line gives, without "\n" or "\r\n".
strip_newline(buf) ==
    LET n == Len(buf)
    IN IF n >= 1 /\ buf[n] = Newline
       THEN IF n >= 2 /\ buf[n - 1] = 13 THEN SubSeq(buf, 1, n - 2)
            ELSE SubSeq(buf, 1, n - 1)
       ELSE buf
lines(content) ==
    LET segments == read_lines(content)
    IN [i \in 1..Len(segments) |-> strip_newline(segments[i])]

\* The lines of an opened file that are read before a read fails.
lines_read(p) ==
    LET all == lines(Content(p))
    IN IF ReadErrorAt(p) = 0 THEN all ELSE SubSeq(all, 1, ReadErrorAt(p) - 1)

FileLists == StringsUpTo(Arguments, MaxFiles) \ {<<>>}

\* -------------------------------------------------------------------- catr
\* format!("{:>6}", n).
RECURSIVE pad_left(_, _)
pad_left(str, width) ==
    IF Len(str) >= width THEN str ELSE pad_left(<<" ">> \o str, width)

\* println!("{:>6}\t{}", line_num, line) and println!("{}", line).
NumberedLine(line_num, l) ==
    [prefix |-> pad_left(to_string(line_num), 6) \o <<"\t">>, text |-> l]
PlainLine(l) == [prefix |-> <<>>, text |-> l]

\* A slip in run: with -b an empty line keeps the number it was given.
RECURSIVE catr_lines_blank_counted(_, _, _)
catr_lines_blank_counted(ls, line_num, cfg) ==
    IF ls = <<>> THEN <<>>
    ELSE LET l == ls[1]
             n == line_num + 1
         IN IF cfg.number_lines
            THEN <<NumberedLine(n, l)>> \o catr_lines_blank_counted(Tail(ls), n, cfg)
            ELSE IF cfg.number_nonblank_lines
                 THEN IF l = <<>>
                      THEN <<PlainLine(<<>>)>>
                               \o catr_lines_blank_counted(Tail(ls), n, cfg)
                      ELSE <<NumberedLine(n, l)>>
                               \o catr_lines_blank_counted(Tail(ls), n, cfg)
            ELSE <<PlainLine(l)>> \o catr_lines_blank_counted(Tail(ls), n, cfg)

\* The body of `for line in file.lines()` in run, line after line.
RECURSIVE catr_lines(_, _, _)
catr_lines(ls, line_num, cfg) ==
    IF ls = <<>> THEN <<>>
    ELSE LET l == ls[1]
             n == line_num + 1
         IN IF cfg.number_lines
            THEN <<NumberedLine(n, l)>> \o catr_lines(Tail(ls), n, cfg)
            ELSE IF cfg.number_nonblank_lines
                 THEN IF l = <<>>
                      THEN <<PlainLine(<<>>)>> \o catr_lines(Tail(ls), n - 1, cfg)
                      ELSE <<NumberedLine(n, l)>> \o catr_lines(Tail(ls), n, cfg)
            ELSE <<PlainLine(l)>> \o catr_lines(Tail(ls), n, cfg)

\* A slip in run: `open(&filename)?`, an open failure returned to the caller.
catr_file_open_returns(filename, cfg) ==
    LET opened == File_open(filename)
    IN IF ~opened.ok
       THEN [stdout |-> <<>>, stderr |-> <<>>, ret |-> Some(Err(opened.err))]
       ELSE [stdout |-> catr_lines(lines_read(filename), 0, cfg),
             stderr |-> <<>>,
             ret |-> IF ReadErrorAt(filename) = 0 THEN None
                     ELSE Some(Err("read error"))]

\* One iteration of `for filename in config.files` in run: what it prints, and
\* what it makes run return (None: the loop goes on).
catr_file(filename, cfg) ==
    LET opened == File_open(filename)
    IN IF ~opened.ok
       THEN [stdout |-> <<>>,
             stderr |-> <<[msg |-> "Failed to open", file |-> filename,
                           err |-> opened.err]>>,
             ret |-> None]
       ELSE [stdout |-> catr_lines(lines_read(filename), 0, cfg),
             stderr |-> <<>>,
             ret |-> IF ReadErrorAt(filename) = 0 THEN None
                     ELSE Some(Err("read error"))]

CatrConfigs ==
    {[files |-> f, number_lines |-> n, number_nonblank_lines |-> b] :
        f \in FileLists, n \in BOOLEAN, b \in BOOLEAN} \ 
    {[files |-> f, number_lines |-> TRUE, number_nonblank_lines |-> TRUE] :
        f \in FileLists}

CatrFile ==
    /\ pc = "running" /\ program = "catr"
    /\ next_file <= Len(config.files)
    /\ LET step == catr_file(config.files[next_file], config)
       IN /\ stdout' = stdout \o step.stdout
          /\ stderr' = stderr \o step.stderr
          /\ IF step.ret.some
             THEN ret' = step.ret /\ pc' = "done" /\ UNCHANGED next_file
             ELSE next_file' = next_file + 1 /\ UNCHANGED <<ret, pc>>
    /\ UNCHANGED <<program, config, found, parsePosVars, extractVars, takeVars, countVars,
                   grepVars, uniqVars, commVars>>

CatrDone ==
    /\ pc = "running" /\ program = "catr"
    /\ next_file > Len(config.files)
    /\ ret' = Some(Ok(<<>>))
    /\ pc' = "done"
    /\ UNCHANGED <<program, config, next_file, found, stdout, stderr,
                   parsePosVars, extractVars, takeVars, countVars,
                   grepVars, uniqVars, commVars>>

\* --------------------------------------------------------------------- lsr
\* One iteration of `for path in paths` in find_files.
lsr_path(path, show_hidden, order) ==
    LET md == metadata(path)
    IN IF ~md.ok
       THEN [found |-> <<>>, stderr |-> <<[file |-> path, err |-> md.err]>>,
             ret |-> None]
       ELSE IF md.val.is_file
            THEN [found |-> <<path>>, stderr |-> <<>>, ret |-> None]
       ELSE LET dirs == read_dir(path, order)
            IN IF ~dirs.ok
               THEN [found |-> <<>>, stderr |-> <<>>, ret |-> Some(Err(dirs.err))]
               ELSE [found |-> SelectSeq(dirs.val,
                                         LAMBDA e : show_hidden \/ ~IsHidden(e)),
                     stderr |-> <<>>, ret |-> None]

LsrConfigs == {[paths |-> f, show_hidden |-> h] : f \in FileLists, h \in BOOLEAN}

LsrPath ==
    /\ pc = "running" /\ program = "lsr"
    /\ next_file <= Len(config.paths)
    /\ \E order \in ReadDirOrders :
        LET step == lsr_path(config.paths[next_file], config.show_hidden, order)
        IN /\ found' = found \o step.found
           /\ stderr' = stderr \o step.stderr
           /\ IF step.ret.some
              THEN ret' = step.ret /\ pc' = "done" /\ UNCHANGED next_file
              ELSE next_file' = next_file + 1 /\ UNCHANGED <<ret, pc>>
    /\ UNCHANGED <<program, config, stdout, parsePosVars, extractVars, takeVars, countVars,
                   grepVars, uniqVars, commVars>>

LsrDone ==
    /\ pc = "running" /\ program = "lsr"
    /\ next_file > Len(config.paths)
    /\ ret' = Some(Ok(found))
    /\ pc' = "done"
    /\ UNCHANGED <<program, config, next_file, found, stdout, stderr,
                   parsePosVars, extractVars, takeVars, countVars,
                   grepVars, uniqVars, commVars>>

\* ---------------------------------------------------------------- fortuner
\* One iteration of `for path in paths` in find_files.
fortuner_path(path, order) ==
    LET md == metadata(path)
    IN IF ~md.ok
       THEN [found |-> <<>>, ret |-> Some(Err([file |-> path, err |-> md.err]))]
       ELSE LET entries == SelectSeq(walk_dir(path, order), LAMBDA e : e.ok)
                files == SelectSeq(entries,
                             LAMBDA e : IsRegularFile(e.val) /\ ~HasDatExtension(e.val))
            IN [found |-> [i \in 1..Len(files) |-> files[i].val], ret |-> None]

\* A slip in find_files: paths_buf.sort() left out.
sort_left_out(paths) == paths

\* Vec::sort on paths, and Vec::dedup.
sort(paths) ==
    LET copies(p) == SelectSeq(paths, LAMBDA q : q = p)
        F[i \in 0..Len(SortedPaths)] ==
            IF i = 0 THEN <<>> ELSE F[i - 1] \o copies(SortedPaths[i])
    IN F[Len(SortedPaths)]
RECURSIVE dedup(_)
dedup(paths) ==
    IF Len(paths) <= 1 THEN paths
    ELSE IF paths[1] = paths[2] THEN dedup(Tail(paths))
    ELSE <<paths[1]>> \o dedup(Tail(paths))

FortunerConfigs == {[sources |-> f] : f \in FileLists}

FortunerPath ==
    /\ pc = "running" /\ program = "fortuner"
    /\ next_file <= Len(config.sources)
    /\ \E order \in ReadDirOrders :
        LET step == fortuner_path(config.sources[next_file], order)
        IN /\ found' = found \o step.found
           /\ IF step.ret.some
              THEN ret' = step.ret /\ pc' = "done" /\ UNCHANGED next_file
              ELSE next_file' = next_file + 1 /\ UNCHANGED <<ret, pc>>
    /\ UNCHANGED <<program, config, stdout, stderr,
                   parsePosVars, extractVars, takeVars, countVars,
                   grepVars, uniqVars, commVars>>

FortunerDone ==
    /\ pc = "running" /\ program = "fortuner"
    /\ next_file > Len(config.sources)
    /\ found' = dedup(sort(found))
    /\ ret' = Some(Ok(found'))
    /\ pc' = "done"
    /\ UNCHANGED <<program, config, next_file, stdout, stderr,
                   parsePosVars, extractVars, takeVars, countVars,
                   grepVars, uniqVars, commVars>>

\* ------------------------------------------------------------------- headr
\* get_args: -c conflicts with -n, and -n is 10 unless given.
HeadrConfigs ==
    {[files |-> f, lines |-> n, bytes |-> None] : f \in FileLists, n \in 1..MaxTake}
    \cup {[files |-> f, lines |-> 10, bytes |-> Some(n)] :
             f \in FileLists, n \in 1..MaxTake}

\* println!("{:#?}", config).
DebugConfig(cfg) == [debug |-> cfg]

\* run of headr.
HeadrRun ==
    /\ pc = "running" /\ program = "headr"
    /\ stdout' = stdout \o <<DebugConfig(config)>>
    /\ ret' = Some(Ok(<<>>))
    /\ pc' = "done"
    /\ UNCHANGED <<program, config, next_file, found, stderr,
                   parsePosVars, extractVars, takeVars, countVars,
                   grepVars, uniqVars, commVars>>

\* ------------------------------------------------------------------- tailr
\* The loop of count_lines_bytes: it ends at the end of the file and at the
\* first read that fails.
RECURSIVE count_lines_bytes_loop(_, _, _, _)
count_lines_bytes_loop(segments, call, read_error_at, so_far) ==
    IF call = read_error_at \/ call > Len(segments) THEN so_far
    ELSE count_lines_bytes_loop(segments, call + 1, read_error_at,
             <<so_far[1] + 1, so_far[2] + Len(as_bytes(segments[call]))>>)

count_lines_bytes(filename) ==
    LET opened == File_open(filename)
    IN IF ~opened.ok THEN Err(opened.err)
       ELSE Ok(count_lines_bytes_loop(read_lines(Content(filename)), 1,
                                      ReadErrorAt(filename), <<0, 0>>))

\* println!("{} has {} lines and {} bytes", ...).
HasLinesAndBytes(filename, total_lines, total_bytes) ==
    [file |-> filename, lines |-> total_lines, bytes |-> total_bytes]

\* One iteration of `for filename in config.files` in run.
tailr_file(filename) ==
    LET opened == File_open(filename)
    IN IF ~opened.ok
       THEN [stdout |-> <<>>,
             stderr |-> <<[file |-> filename, err |-> opened.err]>>,
             ret |-> None]
       ELSE LET totals == count_lines_bytes(filename)
            IN IF ~totals.ok
               THEN [stdout |-> <<>>, stderr |-> <<>>, ret |-> Some(Err(totals.err))]
               ELSE [stdout |-> <<HasLinesAndBytes(filename, totals.val[1],
                                                   totals.val[2])>>,
                     stderr |-> <<>>, ret |-> None]

\* The values -n and -c can have; -c conflicts with -n, and -n is "10", which
\* parse_take_num makes TakeNum(-10), unless given.
TakeValues == {PlusZero} \cup {TakeNum(n) : n \in (-MaxTake)..MaxTake}
TailrConfigs ==
    {[files |-> f, lines |-> t, bytes |-> None, quiet |-> q] :
        f \in FileLists, t \in TakeValues, q \in BOOLEAN}
    \cup {[files |-> f, lines |-> TakeNum(-10), bytes |-> Some(t), quiet |-> q] :
             f \in FileLists, t \in TakeValues, q \in BOOLEAN}

TailrFile ==
    /\ pc = "running" /\ program = "tailr"
    /\ next_file <= Len(config.files)
    /\ LET step == tailr_file(config.files[next_file])
       IN /\ stdout' = stdout \o step.stdout
          /\ stderr' = stderr \o step.stderr
          /\ IF step.ret.some
             THEN ret' = step.ret /\ pc' = "done" /\ UNCHANGED next_file
             ELSE next_file' = next_file + 1 /\ UNCHANGED <<ret, pc>>
    /\ UNCHANGED <<program, config, found, parsePosVars, extractVars, takeVars, countVars,
                   grepVars, uniqVars, commVars>>

TailrDone ==
    /\ pc = "running" /\ program = "tailr"
    /\ next_file > Len(config.files)
    /\ ret' = Some(Ok(<<>>))
    /\ pc' = "done"
    /\ UNCHANGED <<program, config, next_file, found, stdout, stderr,
                   parsePosVars, extractVars, takeVars, countVars,
                   grepVars, uniqVars, commVars>>

\* ------------------------------------------------------ grepr: find_files
\* WalkDir::new(path).max_depth(0).into_iter(): the entry itself only.
walk_dir_max_depth_0(p) ==
    IF ~Exists(p) THEN <<Err("No such file or directory")>> ELSE <<Ok(p)>>

\* format!("{} is a directory", path), and a walkdir::Error made an error.
IsADirectory(p) == [file |-> p, msg |-> "is a directory"]
WalkError(e) == [walk_error |-> e]

\* The closure given to filter_map, applied along the walk.
RECURSIVE grepr_filter_map(_, _)
grepr_filter_map(walks, recursive) ==
    IF walks = <<>> THEN <<>>
    ELSE LET e == walks[1]
             rest == grepr_filter_map(Tail(walks), recursive)
         IN IF e.ok
            THEN IF ~recursive /\ IsDirectory(e.val)
                 THEN <<Err(IsADirectory(e.val))>> \o rest
                 ELSE IF recursive /\ IsDirectory(e.val) THEN rest
                 ELSE <<Ok(e.val)>> \o rest
            ELSE <<Err(WalkError(e.err))>> \o rest

\* A slip in find_files: a directory is passed over whatever the flag.
grepr_path_skips_directories(path, recursive, order) ==
    IF path = "-" THEN <<Ok(path)>>
    ELSE grepr_filter_map(IF recursive THEN walk_dir(path, order)
                          ELSE walk_dir_max_depth_0(path), TRUE)

\* One iteration of `for path in paths` in find_files: what it adds to results.
grepr_path(path, recursive, order) ==
    IF path = "-" THEN <<Ok(path)>>
    ELSE grepr_filter_map(IF recursive THEN walk_dir(path, order)
                          ELSE walk_dir_max_depth_0(path), recursive)

GreprConfigs ==
    {[files |-> f, recursive |-> r] :
        f \in StringsUpTo(Arguments \cup {"-"}, MaxFiles) \ {<<>>}, r \in BOOLEAN}

GreprPath ==
    /\ pc = "running" /\ program = "grepr"
    /\ next_file <= Len(config.files)
    /\ \E order \in ReadDirOrders :
        found' = found \o grepr_path(config.files[next_file], config.recursive, order)
    /\ next_file' = next_file + 1
    /\ UNCHANGED <<pc, program, config, stdout, stderr, ret,
                   parsePosVars, extractVars, takeVars, countVars,
                   grepVars, uniqVars, commVars>>

GreprDone ==
    /\ pc = "running" /\ program = "grepr"
    /\ next_file > Len(config.files)
    /\ ret' = Some(found)
    /\ pc' = "done"
    /\ UNCHANGED <<program, config, next_file, found, stdout, stderr,
                   parsePosVars, extractVars, takeVars, countVars,
                   grepVars, uniqVars, commVars>>

InitRun(programs) ==
    /\ pc = "running"
    /\ program \in programs
    /\ config \in (CASE program = "catr" -> CatrConfigs
                     [] program = "lsr" -> LsrConfigs
                     [] program = "fortuner" -> FortunerConfigs
                     [] program = "headr" -> HeadrConfigs
                     [] program = "tailr" -> TailrConfigs
                     [] program = "grepr" -> GreprConfigs)
    /\ next_file = 1
    /\ found = <<>> /\ stdout = <<>> /\ stderr = <<>> /\ ret = None
    /\ IdleParsePos /\ IdleExtract /\ IdleTake /\ IdleCount /\ IdleText

InitFiles == InitRun({"catr", "lsr", "fortuner"})

NextFiles ==
    \/ CatrFile \/ CatrDone
    \/ LsrPath \/ LsrDone
    \/ FortunerPath \/ FortunerDone

SpecFiles == InitFiles /\ [][NextFiles]_vars

\* The argument list of the running utility.
ArgumentList ==
    CASE program = "catr" -> config.files
      [] program = "lsr" -> config.paths
      [] program = "fortuner" -> config.sources
      [] OTHER -> <<>>

\* The failures an argument can meet.
CannotBeOpened(p) == ~Exists(p) \/ ~Readable(p)
MetadataFails(p) == ~Exists(p)
ReadFailsPartWay(p) == ~CannotBeOpened(p) /\ ReadErrorAt(p) > 0
CannotBeListed(p) == IsDirectory(p) /\ ~Readable(p)

\* The failure at which the running utility gives up, if it meets one.
Fatal(p) ==
    CASE program = "catr" -> ReadFailsPartWay(p)
      [] program = "lsr" -> CannotBeListed(p)
      [] program = "fortuner" -> MetadataFails(p)
      [] OTHER -> FALSE
\* The failure for which the running utility writes a message and goes on.
Reported(p) ==
    CASE program = "catr" -> CannotBeOpened(p)
      [] program = "lsr" -> MetadataFails(p)
      [] OTHER -> FALSE
Failing(p) ==
    CASE program = "catr" -> CannotBeOpened(p) \/ ReadFailsPartWay(p)
      [] program = "lsr" -> MetadataFails(p) \/ CannotBeListed(p)
      [] program = "fortuner" -> MetadataFails(p)
      [] OTHER -> FALSE

FirstFatal ==
    LET hits == {i \in 1..Len(ArgumentList) : Fatal(ArgumentList[i])}
    IN IF hits = {} THEN 0 ELSE CHOOSE i \in hits : \A j \in hits : i <= j

\* The arguments the run has gone through when it ends.
Visited ==
    IF FirstFatal = 0 THEN ArgumentList ELSE SubSeq(ArgumentList, 1, FirstFatal)
ReportedFiles == SelectSeq(Visited, LAMBDA p : Reported(p))

\* How many lines of an argument catr can print.
PrintableLines(p) ==
    IF CannotBeOpened(p) THEN 0
    ELSE IF ReadErrorAt(p) = 0 THEN Len(lines(Content(p)))
    ELSE ReadErrorAt(p) - 1
RECURSIVE SumPrintable(_)
SumPrintable(ps) ==
    IF ps = <<>> THEN 0 ELSE PrintableLines(ps[1]) + SumPrintable(Tail(ps))

\* C6 as stated: whatever fails for one argument, the run goes through the
\* whole argument list and does not return an error.
C6_EveryFailureIsSkipped ==
    pc = "done" /\ program \in {"catr", "lsr", "fortuner"} =>
        /\ ret.val.ok
        /\ next_file = Len(ArgumentList) + 1

\* C6: a file catr cannot open and a path whose metadata lsr cannot read
\* only produce a message, one per such argument and in argument order, and
\* the arguments after them are processed; but the run ends with an error,
\* the later arguments untouched, at the first file catr cannot read to its
\* end, the first directory lsr cannot list, and the first path whose
\* metadata fortuner cannot read.
C6_OnlyOpenFailuresAreSkipped ==
    pc = "done" /\ program \in {"catr", "lsr", "fortuner"} =>
        /\ ret.val.ok <=> FirstFatal = 0
        /\ next_file = IF FirstFatal = 0 THEN Len(ArgumentList) + 1 ELSE FirstFatal
        /\ Len(stderr) = Len(ReportedFiles)
        /\ \A i \in 1..Len(stderr) : stderr[i].file = ReportedFiles[i]
        /\ program = "catr" => Len(stdout) = SumPrintable(Visited)
        /\ program = "lsr" /\ FirstFatal = 0 =>
               \A i \in 1..Len(ArgumentList) :
                   IsRegularFile(ArgumentList[i]) =>
                       \E k \in 1..Len(found) : found[k] = ArgumentList[i]

\* catr meets a file it cannot open before one it can: one message, the
\* second file printed, no error returned.
C6_Witness ==
    /\ pc = "done" /\ program = "catr"
    /\ config.files = <<"nope", "a.txt">>
    /\ ret = Some(Ok(<<>>))
    /\ Len(stderr) = 1 /\ stderr[1].file = "nope"
    /\ Len(stdout) = 3

InitHeadTail == InitRun({"headr", "tailr"})

NextHeadTail == HeadrRun \/ TailrFile \/ TailrDone

SpecHeadTail == InitHeadTail /\ [][NextHeadTail]_vars

\* ------------------------------------------------ what claim C7 speaks of
\* The files whose content a run can read to the end.
ReadableFiles(files) ==
    SelectSeq(files, LAMBDA p : ~CannotBeOpened(p) /\ ReadErrorAt(p) = 0)

\* The lines (with their line ends) or the bytes of a file.
UnitsOf(p, in_bytes) ==
    IF in_bytes THEN [i \in 1..Len(as_bytes(Content(p))) |-> <<as_bytes(Content(p))[i]>>]
    ELSE LET segments == read_lines(Content(p))
         IN [i \in 1..Len(segments) |-> as_bytes(segments[i])]

RECURSIVE Concat(_)
Concat(seqs) == IF seqs = <<>> THEN <<>> ELSE seqs[1] \o Concat(Tail(seqs))

Min(a, b) == IF a <= b THEN a ELSE b

\* The head of a file: its first n lines, or its first n bytes.
HeadOf(p, cfg) ==
    LET units == UnitsOf(p, cfg.bytes.some)
        n == IF cfg.bytes.some THEN cfg.bytes.val ELSE cfg.lines
    IN Concat(SubSeq(units, 1, Min(n, Len(units))))

\* The tail of a file: its lines, or bytes, from the start index on.
TailOf(p, cfg) ==
    LET units == UnitsOf(p, cfg.bytes.some)
        take_val == IF cfg.bytes.some THEN cfg.bytes.val ELSE cfg.lines
        start == ExpectedStartIndex(take_val, Len(units))
    IN IF start.some THEN Concat(SubSeq(units, start.val + 1, Len(units))) ELSE <<>>

Extraction(cfg) ==
    LET files == ReadableFiles(cfg.files)
    IN [i \in 1..Len(files) |->
           IF program = "headr" THEN HeadOf(files[i], cfg) ELSE TailOf(files[i], cfg)]

\* C7: when run of headr or tailr has ended, standard output holds, for each
\* input file in turn, the head (headr: first `lines` lines, or first `bytes`
\* bytes with -c) or the tail (tailr: the lines or bytes its value selects)
\* of the file.
C7_HeadTailExtraction ==
    pc = "done" /\ program \in {"headr", "tailr"} /\ ret.val.ok
        => stdout = Extraction(config)

\* ------------------------------------------------------ grepr: find_lines
\* A Regex built from a literal by RegexBuilder, with or without
\* case_insensitive: it matches a text that contains the literal.
Pattern(lit, ci) == [literal |-> lit, case_insensitive |-> ci]

\* Simple case folding of the letters of the inputs (O -> o).
fold_case(c) == IF c = 79 THEN 111 ELSE c

\* Regex::is_match: the literal occurs somewhere in the text.
is_match(re, text) ==
    LET same(a, b) == IF re.case_insensitive THEN fold_case(a) = fold_case(b)
                      ELSE a = b
        n == Len(re.literal)
    IN \E start \in 0..(Len(text) - n) :
           \A k \in 1..n : same(text[start + k], re.literal[k])

\* The loop of find_lines: it ends at the end of the input and at the first
\* read_line call that fails.
RECURSIVE find_lines_loop(_, _, _, _, _)
find_lines_loop(segments, call, read_error_at, re, so_far) ==
    IF call = read_error_at \/ call > Len(segments) THEN so_far
    ELSE LET buf == segments[call]
         IN find_lines_loop(segments, call + 1, read_error_at, re,
                IF is_match(re, buf)
                THEN [so_far EXCEPT !.matches = Append(@, buf)]
                ELSE [so_far EXCEPT !.inv_matches = Append(@, buf)])

find_lines(f, re, invert) ==
    LET both == find_lines_loop(read_lines(f.content), 1, f.read_error_at, re,
                                [matches |-> <<>>, inv_matches |-> <<>>])
    IN Ok(IF invert THEN both.inv_matches ELSE both.matches)

\* The characters of the inputs: o, O, carriage return and newline.
GrepAlphabet == {111, 79, 13, Newline}
\* The patterns: "", "o", "O" and "oo", case sensitive or not.
Patterns ==
    {Pattern(lit, ci) : lit \in {<<>>, <<111>>, <<79>>, <<111, 111>>}, ci \in BOOLEAN}

InitGrep ==
    /\ pc = "start"
    /\ grep_file \in [content : StringsUpTo(GrepAlphabet, MaxFileLen),
                      read_error_at : 0..MaxReadError]
    /\ pattern \in Patterns
    /\ invert_match \in BOOLEAN
    /\ matches = None
    /\ IdleParsePos /\ IdleExtract /\ IdleTake /\ IdleCount /\ IdleRun
    /\ IdleUniq /\ IdleComm

\* run: find_lines on an opened file.
FindLines ==
    /\ pc = "start"
    /\ matches' = Some(find_lines(grep_file, pattern, invert_match))
    /\ pc' = "found"
    /\ UNCHANGED <<grep_file, pattern, invert_match, parsePosVars, extractVars,
                   takeVars, countVars, runVars, uniqVars, commVars>>

NextGrep == FindLines

SpecGrep == InitGrep /\ [][NextGrep]_vars

\* ---------------------------------------------- what claim C11 speaks of
\* The lines of an input, each with its terminator.
InputLines(content) == read_lines(content)

\* The line contains the pattern's literal.
MatchesOn(re, text) ==
    \E start \in 1..(Len(text) + 1) :
        /\ start + Len(re.literal) - 1 <= Len(text)
        /\ \A k \in 1..Len(re.literal) :
               LET c == text[start + k - 1]
                   l == re.literal[k]
               IN c = l \/ (re.case_insensitive /\ {c, l} = {79, 111})

\* C11: find_lines returns, with invert_match = false, exactly the lines
\* (with their terminators) on which the pattern matches, in input order,
\* and with invert_match = true exactly those on which it does not match;
\* the lengths of the two results sum to the number of lines.
C11_MatchesPartitionTheLines ==
    pc = "found" =>
        /\ matches.val =
               Ok(SelectSeq(InputLines(grep_file.content),
                            LAMBDA l : MatchesOn(pattern, l) = ~invert_match))
        /\ Len(find_lines(grep_file, pattern, FALSE).val)
             + Len(find_lines(grep_file, pattern, TRUE).val)
               = Len(InputLines(grep_file.content))

InitGreprFiles == InitRun({"grepr"})

NextGreprFiles == GreprPath \/ GreprDone

SpecGreprFiles == InitGreprFiles /\ [][NextGreprFiles]_vars

\* ---------------------------------------------- what claim C12 speaks of
\* The entries below a path that are not directories.
NonDirectoriesBelow(p) == {e \in Children(p) : ~IsDirectory(e)}

OkPaths(results) ==
    LET oks == SelectSeq(results, LAMBDA r : r.ok)
    IN [i \in 1..Len(oks) |-> oks[i].val]

\* What C12 says of the results one path yields.
ResultsOfPath(p, recursive, results) ==
    IF p = "-" THEN results = <<Ok("-")>>
    ELSE IF ~recursive
         THEN /\ Len(results) = 1
              /\ IsRegularFile(p) => results[1] = Ok(p)
              /\ IsDirectory(p) => results[1] = Err(IsADirectory(p))
              /\ ~Exists(p) => ~results[1].ok
    ELSE IsDirectory(p) =>
             /\ {OkPaths(results)[i] : i \in 1..Len(OkPaths(results))}
                    = NonDirectoriesBelow(p)
             /\ Len(OkPaths(results)) = Cardinality(NonDirectoriesBelow(p))
             /\ \A i \in 1..Len(results) :
                    /\ results[i] # Ok(p)
                    /\ results[i] # Err(IsADirectory(p))

\* The results are those of the paths, one path after the other.
RECURSIVE InPathOrder(_, _, _)
InPathOrder(paths, recursive, results) ==
    IF paths = <<>> THEN results = <<>>
    ELSE \E k \in 0..Len(results) :
             /\ ResultsOfPath(paths[1], recursive, SubSeq(results, 1, k))
             /\ InPathOrder(Tail(paths), recursive,
                            SubSeq(results, k + 1, Len(results)))

Sources == Arguments \cup {"dir/c.txt", "dir/d.dat"}

InitFortune ==
    /\ pc = "running"
    /\ program = "fortuner"
    /\ config \in {[sources |-> f] : f \in StringsUpTo(Sources, MaxFiles) \ {<<>>}}
    /\ next_file = 1
    /\ found = <<>> /\ stdout = <<>> /\ stderr = <<>> /\ ret = None
    /\ IdleParsePos /\ IdleExtract /\ IdleTake /\ IdleCount /\ IdleText

NextFortune == FortunerPath \/ FortunerDone

SpecFortune == InitFortune /\ [][NextFortune]_vars

\* ---------------------------------------------- what claim C13 speaks of
\* The paths at or below a path.
AtOrBelow(p) == {p} \cup Children(p)

\* The regular files at or below the sources whose extension is not "dat".
Fortunes(sources) ==
    {f \in UNION {AtOrBelow(sources[i]) : i \in 1..Len(sources)} :
        IsRegularFile(f) /\ ~HasDatExtension(f)}

\* The place of a path in ascending path order.
Rank(p) == CHOOSE i \in 1..Len(SortedPaths) : SortedPaths[i] = p

RECURSIVE trim_end(_)
trim_end(str) ==
    IF str # <<>> /\ is_whitespace(str[Len(str)])
    THEN trim_end(SubSeq(str, 1, Len(str) - 1))
    ELSE str

\* The code point of a character of a formatted number.
CodePoint(c) == IF c = " " THEN 32 ELSE 48 + DigitValue(c)

\* format!("{:>4} {}", count, text).
WithCount(n, text) ==
    LET field == pad_left(to_string(n), 4) \o <<" ">>
    IN [i \in 1..Len(field) |-> CodePoint(field[i])] \o text

\* The closure print: what it writes to out_file (nothing when count is 0).
print(show, n, text) ==
    IF n > 0 THEN <<IF show THEN WithCount(n, text) ELSE text>> ELSE <<>>

\* The loop of run and the print after it: what is written, and what run
\* returns.  A failed read_line returns at once.
RECURSIVE uniq_loop(_, _, _, _, _, _, _)
uniq_loop(segments, call, read_error_at, show, prev_line, n, written) ==
    IF call = read_error_at
    THEN [written |-> written, ret |-> Err("read error")]
    ELSE IF call > Len(segments)
         THEN [written |-> written \o print(show, n, prev_line), ret |-> Ok(<<>>)]
    ELSE LET l == segments[call]
         IN IF trim_end(l) # trim_end(prev_line)
            THEN uniq_loop(segments, call + 1, read_error_at, show, l, 1,
                           written \o print(show, n, prev_line))
            ELSE uniq_loop(segments, call + 1, read_error_at, show, prev_line,
                           n + 1, written)

\* The characters of the inputs: a, b, space and newline.
UniqAlphabet == {97, 98, 32, Newline}

InitUniq ==
    /\ pc = "start"
    /\ in_file \in [content : StringsUpTo(UniqAlphabet, MaxFileLen),
                    read_error_at : 0..MaxReadError]
    /\ show_count \in BOOLEAN
    /\ out_file = <<>>
    /\ uniq_ret = None
    /\ IdleParsePos /\ IdleExtract /\ IdleTake /\ IdleCount /\ IdleRun
    /\ IdleGrep /\ IdleComm

\* run, from the opened files on.
Uniq ==
    /\ pc = "start"
    /\ LET done == uniq_loop(read_lines(in_file.content), 1, in_file.read_error_at,
                             show_count, <<>>, 0, <<>>)
       IN /\ out_file' = done.written
          /\ uniq_ret' = Some(done.ret)
    /\ pc' = "done"
    /\ UNCHANGED <<in_file, show_count, parsePosVars, extractVars, takeVars,
                   countVars, runVars, grepVars, commVars>>

NextUniq == Uniq

SpecUniq == InitUniq /\ [][NextUniq]_vars

\* ---------------------------------------------- what claim C14 speaks of
\* A line without the white space at its end.
Trimmed(l) ==
    LET keep == {i \in 1..Len(l) : \E j \in i..Len(l) : ~is_whitespace(l[j])}
    IN SubSeq(l, 1, Cardinality(keep))

\* The first lines of the maximal runs of lines that are equal when the
\* white space at the end is ignored.
RunStarts(ls) ==
    SelectSeq([i \in 1..Len(ls) |-> [at |-> i, text |-> ls[i]]],
              LAMBDA r : r.at = 1 \/ Trimmed(ls[r.at]) # Trimmed(ls[r.at - 1]))

\* All that was written, as one text.
RECURSIVE Written(_)
Written(writes) ==
    IF writes = <<>> THEN <<>> ELSE writes[1] \o Written(Tail(writes))

\* C14: the output of run has one line for each maximal run of input lines
\* that are equal up to trailing white space, in input order, and without -c
\* that line is the first line of the run; runs of blank lines, also at the
\* start of the input, are no exception; empty input gives no output.
C14_OneLinePerRun ==
    pc = "done" =>
        LET starts == RunStarts(read_lines(in_file.content))
            output == read_lines(Written(out_file))
        IN /\ Len(output) = Len(starts)
           /\ ~show_count =>
                  \A i \in 1..Len(starts) : output[i] = starts[i].text

\* ------------------------------------------------------------ commr: run
\* str::to_lowercase on the letters of the inputs.
to_lowercase(str) ==
    [i \in 1..Len(str) |-> IF str[i] >= 65 /\ str[i] <= 90 THEN str[i] + 32 ELSE str[i]]

\* The closure case.
case(l, insensitive) == IF insensitive THEN to_lowercase(l) ELSE l

\* Ord::cmp on strings: the first differing character decides, a proper
\* prefix is less.
RECURSIVE cmp(_, _)
cmp(val1, val2) ==
    IF val1 = <<>> /\ val2 = <<>> THEN "Equal"
    ELSE IF val1 = <<>> THEN "Less"
    ELSE IF val2 = <<>> THEN "Greater"
    ELSE IF val1[1] < val2[1] THEN "Less"
    ELSE IF val1[1] > val2[1] THEN "Greater"
    ELSE cmp(Tail(val1), Tail(val2))

\* next() on lines().filter_map(Result::ok).map(case): the lines whose read
\* fails are passed over; at the end of the file it returns None, and it
\* does not return when the reads fail for ever.
RECURSIVE next(_, _, _)
next(items, stuck, insensitive) ==
    IF items = <<>>
    THEN IF stuck THEN [returns |-> FALSE]
         ELSE [returns |-> TRUE, value |-> None, rest |-> <<>>]
    ELSE IF items[1].ok
         THEN [returns |-> TRUE, value |-> Some(case(items[1].val, insensitive)),
               rest |-> Tail(items)]
    ELSE next(Tail(items), stuck, insensitive)

\* Column::Col1 / Col2 / Col3.
Column(n, val) == [col |-> n, val |-> val]

\* print: the columns it joins with the delimiter, if there is any.
print_columns(col, cfg) ==
    LET columns ==
            CASE col.col = 1 -> IF cfg.show_col1 THEN <<col.val>> ELSE <<>>
              [] col.col = 2 ->
                    IF cfg.show_col2
                    THEN (IF cfg.show_col1 THEN <<<<>>>> ELSE <<>>) \o <<col.val>>
                    ELSE <<>>
              [] col.col = 3 ->
                    IF cfg.show_col3
                    THEN (IF cfg.show_col1 THEN <<<<>>>> ELSE <<>>)
                         \o (IF cfg.show_col2 THEN <<<<>>>> ELSE <<>>) \o <<col.val>>
                    ELSE <<>>
    IN IF columns # <<>> THEN <<columns>> ELSE <<>>

\* A slip in the match: on Equal only line1 is advanced.
comm_match_equal_keeps_line2(l1, l2) ==
    IF l1.some /\ l2.some
    THEN CASE cmp(l1.val, l2.val) = "Equal" ->
                  [print |-> Column(3, l1.val), next1 |-> TRUE, next2 |-> FALSE]
           [] cmp(l1.val, l2.val) = "Less" ->
                  [print |-> Column(1, l1.val), next1 |-> TRUE, next2 |-> FALSE]
           [] cmp(l1.val, l2.val) = "Greater" ->
                  [print |-> Column(2, l2.val), next1 |-> FALSE, next2 |-> TRUE]
    ELSE IF l1.some
         THEN [print |-> Column(1, l1.val), next1 |-> TRUE, next2 |-> FALSE]
    ELSE [print |-> Column(2, l2.val), next1 |-> FALSE, next2 |-> TRUE]

\* The match of the loop body, for line1 or line2 a Some: what is printed and
\* which iterator is advanced.
comm_match(l1, l2) ==
    IF l1.some /\ l2.some
    THEN CASE cmp(l1.val, l2.val) = "Equal" ->
                  [print |-> Column(3, l1.val), next1 |-> TRUE, next2 |-> TRUE]
           [] cmp(l1.val, l2.val) = "Less" ->
                  [print |-> Column(1, l1.val), next1 |-> TRUE, next2 |-> FALSE]
           [] cmp(l1.val, l2.val) = "Greater" ->
                  [print |-> Column(2, l2.val), next1 |-> FALSE, next2 |-> TRUE]
    ELSE IF l1.some
         THEN [print |-> Column(1, l1.val), next1 |-> TRUE, next2 |-> FALSE]
    ELSE [print |-> Column(2, l2.val), next1 |-> FALSE, next2 |-> TRUE]

\* The lines of the inputs: "a" and "B".
LineValues == {<<97>>, <<66>>}
\* What reading a line gives: the line, or an error (a line that is not UTF-8).
LineReads == {Ok(v) : v \in LineValues} \cup {Err("stream did not contain valid UTF-8")}
CommFiles == [items : StringsUpTo(LineReads, MaxCommLines), stuck : BOOLEAN]
CommConfigs ==
    [show_col1 : BOOLEAN, show_col2 : BOOLEAN, show_col3 : BOOLEAN,
     insensitive : BOOLEAN]

InitComm ==
    /\ pc = "start"
    /\ file1 \in CommFiles
    /\ file2 \in CommFiles
    /\ comm_config \in CommConfigs
    /\ lines1 = file1.items /\ lines2 = file2.items
    /\ line1 = None /\ line2 = None
    /\ events = <<>> /\ printed = <<>> /\ iterations = 0
    /\ IdleParsePos /\ IdleExtract /\ IdleTake /\ IdleCount /\ IdleRun
    /\ IdleGrep /\ IdleUniq

\* let mut line1 = lines1.next(); let mut line2 = lines2.next();
CommFirstLines ==
    /\ pc = "start"
    /\ LET n1 == next(lines1, file1.stuck, comm_config.insensitive)
           n2 == next(lines2, file2.stuck, comm_config.insensitive)
       IN IF ~n1.returns
          THEN pc' = "reading" /\ UNCHANGED <<lines1, lines2, line1, line2>>
          ELSE /\ line1' = n1.value /\ lines1' = n1.rest
               /\ IF ~n2.returns
                  THEN pc' = "reading" /\ UNCHANGED <<lines2, line2>>
                  ELSE line2' = n2.value /\ lines2' = n2.rest /\ pc' = "merging"
    /\ UNCHANGED <<file1, file2, comm_config, events, printed, iterations,
                   parsePosVars, extractVars, takeVars, countVars, runVars,
                   grepVars, uniqVars>>

\* One iteration of the while loop.
CommIteration ==
    /\ pc = "merging"
    /\ line1.some \/ line2.some
    /\ LET m == comm_match(line1, line2)
           n1 == next(lines1, file1.stuck, comm_config.insensitive)
           n2 == next(lines2, file2.stuck, comm_config.insensitive)
       IN /\ events' = Append(events, m.print)
          /\ printed' = printed \o print_columns(m.print, comm_config)
          /\ IF m.next1 /\ ~n1.returns
             THEN pc' = "reading" /\ UNCHANGED <<lines1, lines2, line1, line2, iterations>>
             ELSE /\ IF m.next1 THEN line1' = n1.value /\ lines1' = n1.rest
                     ELSE UNCHANGED <<line1, lines1>>
                  /\ IF m.next2 /\ ~n2.returns
                     THEN pc' = "reading" /\ UNCHANGED <<lines2, line2, iterations>>
                     ELSE /\ IF m.next2 THEN line2' = n2.value /\ lines2' = n2.rest
                             ELSE UNCHANGED <<line2, lines2>>
                          /\ iterations' = iterations + 1
                          /\ UNCHANGED pc
    /\ UNCHANGED <<file1, file2, comm_config,
                   parsePosVars, extractVars, takeVars, countVars, runVars,
                   grepVars, uniqVars>>

\* The loop ends: Ok(()).
CommDone ==
    /\ pc = "merging"
    /\ ~line1.some /\ ~line2.some
    /\ pc' = "done"
    /\ UNCHANGED <<parsePosVars, extractVars, takeVars, countVars, runVars,
                   grepVars, uniqVars, commVars>>

NextComm == CommFirstLines \/ CommIteration \/ CommDone

SpecComm == InitComm /\ [][NextComm]_vars

\* ------------------------------------- what claims C15 and C18 speak of
\* The lines of an input that can be read.
ReadableLines(f) ==
    LET oks == SelectSeq(f.items, LAMBDA r : r.ok)
    IN [i \in 1..Len(oks) |-> oks[i].val]

\* v comes before w, or is w.
RECURSIVE AtMost(_, _)
AtMost(v, w) ==
    \/ v = <<>>
    \/ w # <<>> /\ v[1] < w[1]
    \/ w # <<>> /\ v[1] = w[1] /\ AtMost(Tail(v), Tail(w))

Ascending(ls) == \A i \in 1..(Len(ls) - 1) : AtMost(ls[i], ls[i + 1])

Occurrences(ls, v) == Cardinality({i \in 1..Len(ls) : ls[i] = v})
EventsOf(col, v) ==
    Cardinality({i \in 1..Len(events) : events[i] = [col |-> col, val |-> v]})
Least(m, n) == IF m <= n THEN m ELSE n

\* The lines of an input that the run has not yet compared.
Unread(current, rest) ==
    (IF current.some THEN {current.val} ELSE {})
        \cup {rest[i].val : i \in {j \in 1..Len(rest) : rest[j].ok}}

SortedInputs ==
    /\ pc \in {"merging", "reading", "done"}
    /\ ~comm_config.insensitive
    /\ Ascending(ReadableLines(file1)) /\ Ascending(ReadableLines(file2))

\* C15: with sorted inputs and without -i, the lines come out in ascending
\* order; a value that is m times in file 1 and n times in file 2 comes out
\* min(m, n) times in column 3, m - min(m, n) times in column 1 and
\* n - min(m, n) times in column 2; and a line is never given to column 1
\* or 2 while an equal line of the other file is unread.
C15_SortedMerge ==
    SortedInputs =>
        /\ events # <<>> /\ events[Len(events)].col = 1 =>
               events[Len(events)].val \notin Unread(line2, lines2)
        /\ events # <<>> /\ events[Len(events)].col = 2 =>
               events[Len(events)].val \notin Unread(line1, lines1)
        /\ pc = "done" =>
               /\ Ascending([i \in 1..Len(events) |-> events[i].val])
               /\ \A v \in LineValues :
                      LET m == Occurrences(ReadableLines(file1), v)
                          n == Occurrences(ReadableLines(file2), v)
                      IN /\ EventsOf(3, v) = Least(m, n)
                         /\ EventsOf(1, v) = m - Least(m, n)
                         /\ EventsOf(2, v) = n - Least(m, n)

\* "a" twice in file 1 and once in file 2: once common, once in column 1.
C15_Witness ==
    /\ pc = "done" /\ SortedInputs
    /\ ReadableLines(file1) = <<<<97>>, <<97>>>>
    /\ ReadableLines(file2) = <<<<97>>>>
    /\ events = <<Column(3, <<97>>), Column(1, <<97>>)>>

\* The lines of a file as the comparison sees them.
Cased(f) ==
    [i \in 1..Len(f.items) |->
        IF f.items[i].ok THEN case(f.items[i].val, comm_config.insensitive)
        ELSE f.items[i].err]
ClassifiedFrom(cols) ==
    LET evs == SelectSeq(events, LAMBDA e : e.col \in cols)
    IN [i \in 1..Len(evs) |-> evs[i].val]

\* C18: whatever the inputs and -i, every iteration of the loop takes a line
\* from one of the files, so the run is never held up in a read, makes at
\* most len(file1) + len(file2) iterations, and ends with every line of
\* each file classified exactly once and in file order: column-1 and
\* column-3 events are len(file1) together, column-2 and column-3 events
\* len(file2).
C18_EveryLineClassifiedOnce ==
    /\ pc # "reading"
    /\ pc \in {"merging", "done"} =>
           iterations <= Len(file1.items) + Len(file2.items)
    /\ pc = "done" =>
           /\ lines1 = <<>> /\ lines2 = <<>>
           /\ Len(ClassifiedFrom({1, 3})) = Len(file1.items)
           /\ Len(ClassifiedFrom({2, 3})) = Len(file2.items)
           /\ ClassifiedFrom({1, 3}) = Cased(file1)
           /\ ClassifiedFrom({2, 3}) = Cased(file2)

\* ------------------------------------------------------------ findr: run
\* DirEntry::file_type: walkdir does not follow links.
file_type(p) ==
    [is_dir |-> IsDirectory(p), is_file |-> IsRegularFile(p),
     is_symlink |-> IsSymlink(p)]

\* DirEntry::file_name: the last component of the path.
file_name(p) ==
    CASE p = "dir/.h" -> ".h" [] p = "dir/c.txt" -> "c.txt"
      [] p = "dir/d.dat" -> "d.dat" [] p = "links/s" -> "s"
      [] OTHER -> p

\* The regular expressions given with -n, and Regex::is_match on the file
\* names of the model: "\.txt$" and "^d".
NameRegexes == {"\\.txt$", "^d"}
is_name_match(re, name) ==
    CASE re = "\\.txt$" -> name \in {"a.txt", "bad.txt", "c.txt"}
      [] re = "^d" -> name \in {"dir", "d.dat"}

\* The closure type_filter.
type_filter(entry, entry_types) ==
    \/ entry_types = <<>>
    \/ \E i \in 1..Len(entry_types) :
           CASE entry_types[i] = "Dir" -> file_type(entry).is_symlink
             [] entry_types[i] = "File" -> file_type(entry).is_file
             [] entry_types[i] = "Link" -> file_type(entry).is_file

\* The closure name_filter.
name_filter(entry, names) ==
    \/ names = <<>>
    \/ \E i \in 1..Len(names) : is_name_match(names[i], file_name(entry))

\* One iteration of `for path in &config.paths`: the line println! writes
\* (the entries, to be joined by "\n") and the errors eprintln! writes.
findr_path(path, cfg, order) ==
    LET walk == walk_dir(path, order)
        oks == SelectSeq(walk, LAMBDA e : e.ok)
        errs == SelectSeq(walk, LAMBDA e : ~e.ok)
        entries == SelectSeq(oks, LAMBDA e : type_filter(e.val, cfg.entry_types)
                                             /\ name_filter(e.val, cfg.names))
    IN [stdout |-> <<[entries |-> [i \in 1..Len(entries) |-> entries[i].val]]>>,
        stderr |-> [i \in 1..Len(errs) |-> [file |-> path, err |-> errs[i].err]]]

FindrConfigs ==
    [paths : StringsUpTo({"a.txt", "dir", "links", "nope"}, MaxFiles) \ {<<>>},
     names : StringsUpTo(NameRegexes, MaxNames),
     entry_types : StringsUpTo({"Dir", "File", "Link"}, MaxTypes)]

InitFindr ==
    /\ pc = "running"
    /\ program = "findr"
    /\ config \in FindrConfigs
    /\ next_file = 1
    /\ found = <<>> /\ stdout = <<>> /\ stderr = <<>> /\ ret = None
    /\ IdleParsePos /\ IdleExtract /\ IdleTake /\ IdleCount /\ IdleText

FindrPath ==
    /\ pc = "running" /\ program = "findr"
    /\ next_file <= Len(config.paths)
    /\ \E order \in ReadDirOrders :
        LET step == findr_path(config.paths[next_file], config, order)
        IN /\ stdout' = stdout \o step.stdout
           /\ stderr' = stderr \o step.stderr
    /\ next_file' = next_file + 1
    /\ UNCHANGED <<pc, program, config, found, ret,
                   parsePosVars, extractVars, takeVars, countVars,
                   grepVars, uniqVars, commVars>>

FindrDone ==
    /\ pc = "running" /\ program = "findr"
    /\ next_file > Len(config.paths)
    /\ ret' = Some(Ok(<<>>))
    /\ pc' = "done"
    /\ UNCHANGED <<program, config, next_file, found, stdout, stderr,
                   parsePosVars, extractVars, takeVars, countVars,
                   grepVars, uniqVars, commVars>>

NextFindr == FindrPath \/ FindrDone

SpecFindr == InitFindr /\ [][NextFindr]_vars

\* ---------------------------------------------- what claim C16 speaks of
\* The entries found under a search path.
EntriesUnder(p) == IF Exists(p) THEN {p} \cup Children(p) ELSE {}

\* "d" selects directories, "f" regular files, "l" symbolic links.
Selects(t, entry) ==
    \/ t = "Dir" /\ IsDirectory(entry)
    \/ t = "File" /\ IsRegularFile(entry)
    \/ t = "Link" /\ IsSymlink(entry)

Wanted(entry, cfg) ==
    /\ cfg.entry_types = <<>>
         \/ \E i \in 1..Len(cfg.entry_types) : Selects(cfg.entry_types[i], entry)
    /\ cfg.names = <<>>
         \/ \E i \in 1..Len(cfg.names) : is_name_match(cfg.names[i], file_name(entry))

\* C16: an entry found under a search path is printed iff it has one of the
\* requested types (or no -t was given) and its file name matches one of the
\* given regular expressions (or no -n was given).
C16_PrintedIffWanted ==
    pc = "done" /\ program = "findr" =>
        \A k \in 1..Len(config.paths) :
            {stdout[k].entries[i] : i \in 1..Len(stdout[k].entries)}
                = {e \in EntriesUnder(config.paths[k]) : Wanted(e, config)}

\* ------------------------------------------------------ catr: run, again
\* The files given to catr, with and without blank lines.
CatFiles == {"a.txt", "blank.txt", "bad.txt", "nope"}

InitCat ==
    /\ pc = "running"
    /\ program = "catr"
    /\ config \in {c \in [files : StringsUpTo(CatFiles, MaxFiles) \ {<<>>},
                            number_lines : BOOLEAN,
                            number_nonblank_lines : BOOLEAN] :
                      ~(c.number_lines /\ c.number_nonblank_lines)}
    /\ next_file = 1
    /\ found = <<>> /\ stdout = <<>> /\ stderr = <<>> /\ ret = None
    /\ IdleParsePos /\ IdleExtract /\ IdleTake /\ IdleCount /\ IdleText

NextCat == CatrFile \/ CatrDone

SpecCat == InitCat /\ [][NextCat]_vars

\* ---------------------------------------------- what claim C17 speaks of
\* A number right-aligned in 6 columns, and a tab.
NumberField(n) ==
    LET digits == to_string(n)
        blanks == 6 - Len(digits)
    IN [i \in 1..7 |-> IF i <= blanks THEN " "
                       ELSE IF i <= 6 THEN digits[i - blanks]
                       ELSE "\t"]

\* The lines of one file as C17 has them printed.
Numbering(ls, cfg) ==
    [i \in 1..Len(ls) |->
        IF cfg.number_lines
        THEN [prefix |-> NumberField(i), text |-> ls[i]]
        ELSE IF cfg.number_nonblank_lines /\ ls[i] # <<>>
             THEN [prefix |-> NumberField(Cardinality({j \in 1..i : ls[j] # <<>>})),
                   text |-> ls[i]]
        ELSE [prefix |-> <<>>, text |-> ls[i]]]

\* The lines of a file that catr gets to print.
PrintedLines(p) == SubSeq(lines(Content(p)), 1, PrintableLines(p))

\* C17: with -n every printed line of a file has its 1-based index in the
\* file before it, right-aligned in 6 columns and followed by a tab; with -b
\* the non-empty lines are numbered 1, 2, 3, ... and an empty line is
\* printed empty and takes no number; with neither flag the lines are
\* printed as they are; the numbers start again at 1 in every file.
C17_NumberingPerFile ==
    pc = "done" /\ program = "catr" =>
        stdout = Concat([k \in 1..Len(Visited) |->
                            Numbering(PrintedLines(Visited[k]), config)])

\* With -b, blank.txt and then a.txt: the first line of a.txt is numbered 1
\* again, after the two numbered lines and three empty lines of blank.txt.
C17_Witness ==
    /\ pc = "done" /\ program = "catr"
    /\ config.files = <<"blank.txt", "a.txt">>
    /\ config.number_nonblank_lines
    /\ Len(stdout) = 8
    /\ stdout[4].prefix = NumberField(2)
    /\ stdout[5].prefix = <<>>
    /\ stdout[6] = [prefix |-> NumberField(1), text |-> <<98>>]

====
